---- MODULE Spec2Model ----
(***************************************************************************)
(* Model of the streaming-session manager (src/src/transcription.py) and   *)
(* of the fan-out dispatcher (src/src/master.py, src/src/networking.py).   *)
(*                                                                         *)
(* Threads of the program and how they appear here:                        *)
(*   - transcribe_loop (worker thread): tpc, StartSession, Response, ...   *)
(*   - audio_requests_generator: one generator object per session, run by  *)
(*     the RPC library's request-consumer thread: gen[s], Gen* actions     *)
(*   - the event loop (commands, capture hand-off, subscribers):           *)
(*     TogglePause, RestartSignal, Produce, Quit                           *)
(*                                                                         *)
(* Time is discrete (seconds).  The three timestamps of the code are kept  *)
(* as ages, time.time() - t, saturated above every threshold the code      *)
(* compares them with, so that "now - t" of the code is the age itself.    *)
(***************************************************************************)
EXTENDS Integers, Sequences, FiniteSets, TLC

\* ---- bounds of the model
MaxSessions == 2
MaxQueue == 2
MaxRestarts == 1
MaxSignals == 2
Horizon == 1
StallHorizon == 13
NumLangs == 2
MaxUtterances == 2
MaxWeb == 1
MaxSlaves == 1
MaxTalks == 1
MaxPeers == 3
MaxViewers == 3
MaxText == 2
MaxAudio == 1
MaxMsgs == 2
MaxAttempts == 3

\* ---- program constants
STREAM_LIMIT == 290
STALL_RECENT == 2
STALL_SILENT == 10
QUEUE_TIMEOUT == 1
NO_AUDIO_WAIT == 5
WEB_TIMEOUT == 10
PORT_TIMEOUT == 15
COOLDOWN == 1

StartCap == STREAM_LIMIT
AudioCap == NO_AUDIO_WAIT + QUEUE_TIMEOUT + 1
RespCap == STALL_SILENT + 1

VARIABLES
    is_paused,        \* TranscriptionEngine.is_paused
    stop_event,       \* the global stop flag
    audio_queue,      \* TranscriptionEngine.audio_queue (FIFO of chunks)
    translation_queue,\* finalized transcripts handed to the dispatcher
    session,          \* number of sessions transcribe_loop has started
    tpc,              \* position of transcribe_loop
    gen,              \* gen[s]: the request generator created for session s
    since_start,      \* time.time() - start_time
    since_audio,      \* time.time() - last_audio_received_time
    since_response,   \* time.time() - last_google_response_time
    restarts,         \* history: number of restart_signal() calls so far
    paused_all,       \* history: is_paused has been true since the session began
    audio_is_real,    \* history: last_audio_received_time was set by a dequeue
    frame_seq,        \* history: parity of the number of frames enqueued
    last_exit,        \* history: why the last generator return happened
    clients,          \* NetworkServer.clients (the broadcast channel)
    port_clients,     \* port_clients[i]: LanguagePortServer.clients of language i
    disp,             \* translate_loop: position, utterance, language
    tasks,            \* the scheduled coroutines that have not finished
    uttered,          \* history: number of utterances put on translation_queue
    payloads,         \* the messages a port server is to write to one slave
    framed,           \* how many of them broadcast_audio has framed and written
    stream,           \* the bytes written to the slave's socket and not yet read
    decoded,          \* what the slave's receive_message has returned so far
    curr_lang,        \* ConfigManager.curr_lang: 0 is en, i > 0 target language i
    sess_lang,        \* curr_lang_key of the session transcribe_loop is in
    produced,         \* history: produced[u] is the language utterance u was
                      \* transcribed in
    orig_code,        \* orig_code of translate_loop
    cooled,           \* time spent in the sleep after an unexpected error
    last_error,       \* how the last streaming call ended, if by an
                      \* exception: "none", "expected" or "other"
    slave,            \* the playback client of one language channel
    main_pc,          \* position of main: "gather", "cleanup" (in
                      \* executor.shutdown), "servers", "stopped"
    lost              \* lost[i]: the connections of channel i found broken (a
                      \* write, a drain or a send raised, or the peer closed)
                      \* whose handler has not ended yet; channel 0 is the
                      \* broadcast channel

sessVars == <<is_paused, stop_event, audio_queue, translation_queue, session,
              tpc, gen, since_start, since_audio, since_response, restarts,
              paused_all, audio_is_real, frame_seq, last_exit>>

fanVars == <<clients, port_clients, disp, tasks, uttered>>

frameVars == <<payloads, framed, stream, decoded>>

\* what the session manager, the dispatcher and the framing leave alone
\* unless an action says otherwise
otherVars == <<lost, curr_lang, sess_lang, produced, orig_code, cooled,
               last_error, slave, main_pc>>

vars == <<sessVars, fanVars, frameVars, otherVars>>

Sessions == 1..MaxSessions

\* config.target_languages, in iteration order, and the utterances by the
\* order in which they were put on translation_queue
Languages == 1..NumLangs
Utterances == 1..MaxUtterances
WebIds == 1..MaxWeb
SlaveIds == 1..MaxSlaves

Sat(x, cap) == IF x >= cap THEN cap ELSE x

\* ---- chunks on audio_queue
\* A frame carries, as history, the number of restart_signal() calls made
\* before it was enqueued.
Frame(e, q) == [kind |-> "audio", epoch |-> e, seq |-> q]
RESTART_STREAM == [kind |-> "RESTART_STREAM", epoch |-> 0, seq |-> 0]
NoChunk == [kind |-> "none", epoch |-> 0, seq |-> 0]

NoGen == [pc |-> "none", chunk |-> NoChunk, lag |-> 0, born |-> 0, kept |-> FALSE,
          read |-> 0, sent |-> -1]

\* The streaming call of session s is open while transcribe_loop iterates its
\* responses.
Live(s) == s = session /\ tpc = "recv"

\* translate_loop between two utterances.  b and l record, as history, what
\* the skip test of process_and_broadcast_single_lang saw for the language
\* the dispatcher is at: the broadcast channel has subscribers (b), the
\* language's channel has subscribers (l).  waited is the time the
\* dispatcher has spent in the future.result() it is in.
Idle == [pc |-> "get", utt |-> 0, lang |-> 0, b |-> FALSE, l |-> FALSE,
         waited |-> 0]

\* Nothing is connected yet; ConfigManager sets curr_lang to 'en', and
\* translate_loop has read it at its first loop head; a SlaveClient is
\* constructed with running = True and no reader or writer.
InitOther ==
    /\ lost = [i \in 0..NumLangs |-> {}]
    /\ curr_lang = 0
    /\ sess_lang = 0
    /\ produced = [u \in Utterances |-> 0]
    /\ orig_code = 0
    /\ cooled = 0
    /\ last_error = "none"
    /\ slave = [pc |-> "head", running |-> TRUE, link |-> "none",
                writer |-> FALSE, inbox |-> <<>>, sent |-> 0, playing |-> {},
                played |-> <<>>, attempts |-> 0, delays |-> 0]
    /\ main_pc = "gather"

Init ==
    /\ is_paused = TRUE
    /\ stop_event = FALSE
    /\ audio_queue = <<>>
    /\ translation_queue = <<>>
    /\ session = 0
    /\ tpc = "loop"
    /\ gen = [s \in Sessions |-> NoGen]
    /\ since_start = 0
    /\ since_audio = 0
    /\ since_response = 0
    /\ restarts = 0
    /\ paused_all = TRUE
    /\ audio_is_real = FALSE
    /\ frame_seq = 0
    /\ last_exit = "none"
    /\ clients = {}
    /\ port_clients = [i \in Languages |-> {}]
    /\ disp = Idle
    /\ tasks = {}
    /\ uttered = 0
    /\ payloads = <<>>
    /\ framed = 0
    /\ stream = <<>>
    /\ decoded = <<>>
    /\ InitOther

\* ---------------------------------------------------------------------
\* audio_requests_generator: the generator of session s.
\* Positions: "config" (before the first yield), "head" (loop head),
\* "get" (in audio_queue.get), "check" (chunk in hand, before the pause
\* test), "yield" (pause test passed, before the yield), "done".
\* ---------------------------------------------------------------------

\* A variant without the time limit: C7 does not hold of it.
ExpiredNever == FALSE

\* now - start_time >= self.STREAM_LIMIT; start_time is the variable of the
\* enclosing transcribe_loop, which every generator reads through its closure.
Expired == since_start >= STREAM_LIMIT

\* A variant whose stall test is off while paused: C8 does not hold of it.
StallDetectedUnpaused ==
    since_audio < STALL_RECENT /\ since_response > STALL_SILENT /\ ~is_paused

\* (now - last_audio_received_time < 2) and (now - last_google_response_time > 10)
StallDetected == since_audio < STALL_RECENT /\ since_response > STALL_SILENT

\* A variant without the pause test: C3 does not hold of it.
WithholdNever == FALSE

\* if self.is_paused: ... continue
Withhold == is_paused

\* now - self.last_audio_received_time > 5, with the loop head's `now`
NoAudioLogged(s) == since_audio - gen[s].lag > NO_AUDIO_WAIT

Return(s, why) ==
    /\ gen' = [gen EXCEPT ![s] = [NoGen EXCEPT !.pc = "done"]]
    /\ last_exit' = why

\* A variant that takes the language from the shared configuration when the
\* request is built: C32 does not hold of it.
ConfigLanguageShared == curr_lang

\* language_codes=[curr_lang_code]: the variable of the enclosing
\* transcribe_loop, read through the closure when the request is built
ConfigLanguage == sess_lang

\* The first request: the recognition configuration.  The library pulls it
\* with its first next(); when the call has ended by then the request goes
\* nowhere and the generator is not resumed.
\* read is, as history, the language the session read when it started; sent
\* is the language of the configuration request the service received (-1:
\* none).
GenConfig(s) ==
    /\ gen[s].pc = "config"
    /\ IF Live(s)
         THEN /\ gen' = [gen EXCEPT ![s].pc = "head",
                                    ![s].sent = ConfigLanguage]
              /\ UNCHANGED last_exit
         ELSE Return(s, "abandoned")
    /\ UNCHANGED <<is_paused, stop_event, audio_queue, translation_queue,
                   session, tpc, since_start, since_audio, since_response,
                   restarts, paused_all, audio_is_real, frame_seq>>
    /\ UNCHANGED <<fanVars, frameVars, otherVars>>

\* Loop head: the stop flag, `now = time.time()`, expiry, stall detection.
GenHead(s) ==
    /\ gen[s].pc = "head"
    /\ IF stop_event THEN Return(s, "stop")
       ELSE IF Expired THEN Return(s, "expired")
       ELSE IF StallDetected THEN Return(s, "stall")
       ELSE /\ gen' = [gen EXCEPT ![s].pc = "get", ![s].lag = 0]
            /\ UNCHANGED last_exit
    /\ UNCHANGED <<is_paused, stop_event, audio_queue, translation_queue,
                   session, tpc, since_start, since_audio, since_response,
                   restarts, paused_all, audio_is_real, frame_seq>>
    /\ UNCHANGED <<fanVars, frameVars, otherVars>>

\* A variant that leaves the queue alone while paused: C4 does not hold of it.
QueueReadyUnpaused == audio_queue # <<>> /\ ~is_paused

\* audio_queue.get returns as soon as the queue holds a chunk, paused or not.
QueueReady == audio_queue # <<>>

\* A variant that tests the pause flag before the sentinel: C33 does not
\* hold of it.
GenGetPausedFirst(s) ==
    /\ gen[s].pc = "get"
    /\ QueueReady
    /\ LET chunk == Head(audio_queue) IN
         /\ audio_queue' = Tail(audio_queue)
         /\ since_audio' = gen[s].lag
         /\ audio_is_real' = (chunk.kind = "audio")
         /\ IF chunk = RESTART_STREAM /\ ~is_paused
              THEN Return(s, "sentinel")
              ELSE /\ gen' = [gen EXCEPT ![s].pc = "check", ![s].chunk = chunk,
                                         ![s].lag = 0, ![s].kept = is_paused]
                   /\ UNCHANGED last_exit
    /\ UNCHANGED <<is_paused, stop_event, translation_queue, session, tpc,
                   since_start, since_response, restarts, paused_all,
                   frame_seq>>
    /\ UNCHANGED <<fanVars, frameVars, otherVars>>

\* chunk = self.audio_queue.get(timeout=1) returns a chunk;
\* last_audio_received_time = now (the loop head's now); the poison-pill test.
GenGet(s) ==
    /\ gen[s].pc = "get"
    /\ QueueReady
    /\ LET chunk == Head(audio_queue) IN
         /\ audio_queue' = Tail(audio_queue)
         /\ since_audio' = gen[s].lag
         /\ audio_is_real' = (chunk.kind = "audio")
         /\ IF chunk = RESTART_STREAM
              THEN Return(s, "sentinel")
              ELSE /\ gen' = [gen EXCEPT ![s].pc = "check", ![s].chunk = chunk,
                                         ![s].lag = 0, ![s].kept = is_paused]
                   /\ UNCHANGED last_exit
    /\ UNCHANGED <<is_paused, stop_event, translation_queue, session, tpc,
                   since_start, since_response, restarts, paused_all,
                   frame_seq>>
    /\ UNCHANGED <<fanVars, frameVars, otherVars>>

\* audio_queue.get(timeout=1) raises queue.Empty after the timeout.
GenEmpty(s) ==
    /\ gen[s].pc = "get"
    /\ audio_queue = <<>>
    /\ gen[s].lag >= QUEUE_TIMEOUT
    /\ IF NoAudioLogged(s)
         THEN since_audio' = gen[s].lag /\ audio_is_real' = FALSE
         ELSE UNCHANGED <<since_audio, audio_is_real>>
    /\ gen' = [gen EXCEPT ![s].pc = "head", ![s].lag = 0]
    /\ UNCHANGED <<is_paused, stop_event, audio_queue, translation_queue,
                   session, tpc, since_start, since_response, restarts,
                   paused_all, frame_seq, last_exit>>
    /\ UNCHANGED <<fanVars, frameVars, otherVars>>

\* The pause test on the chunk in hand.
GenCheck(s) ==
    /\ gen[s].pc = "check"
    /\ IF Withhold
         THEN /\ since_response' = 0
              /\ gen' = [gen EXCEPT ![s].pc = "head", ![s].chunk = NoChunk,
                                    ![s].kept = FALSE]
         ELSE /\ gen' = [gen EXCEPT ![s].pc = "yield"]
              /\ UNCHANGED since_response
    /\ UNCHANGED <<is_paused, stop_event, audio_queue, translation_queue,
                   session, tpc, since_start, since_audio, restarts,
                   paused_all, audio_is_real, frame_seq, last_exit>>
    /\ UNCHANGED <<fanVars, frameVars, otherVars>>

\* yield StreamingRecognizeRequest(audio=chunk).  The library sends it on the
\* open call and resumes the generator; when the call has ended the request
\* is dropped and the generator is never resumed.
GenYield(s) ==
    /\ gen[s].pc = "yield"
    /\ IF Live(s)
         THEN /\ gen' = [gen EXCEPT ![s].pc = "head", ![s].chunk = NoChunk,
                                    ![s].kept = FALSE]
              /\ UNCHANGED last_exit
         ELSE Return(s, "abandoned")
    /\ UNCHANGED <<is_paused, stop_event, audio_queue, translation_queue,
                   session, tpc, since_start, since_audio, since_response,
                   restarts, paused_all, audio_is_real, frame_seq>>
    /\ UNCHANGED <<fanVars, frameVars, otherVars>>

GenStep(s) ==
    \/ GenConfig(s)
    \/ GenHead(s)
    \/ GenGet(s)
    \/ GenEmpty(s)
    \/ GenCheck(s)
    \/ GenYield(s)

\* ---------------------------------------------------------------------
\* transcribe_loop.  Positions: "loop" (head of the while loop), "recv"
\* (iterating the responses of the open call), "cooldown" (time.sleep(1)
\* after an unexpected error), "exit".
\* ---------------------------------------------------------------------

\* A variant that keeps last_google_response_time across sessions: C36 does
\* not hold of it.
StartSessionKeepsClock ==
    /\ tpc = "loop"
    /\ ~stop_event
    /\ session < MaxSessions
    /\ session' = session + 1
    /\ since_start' = 0
    /\ gen' = [gen EXCEPT ![session + 1] =
                  [NoGen EXCEPT !.pc = "config", !.born = restarts,
                                !.read = curr_lang]]
    /\ paused_all' = is_paused
    /\ tpc' = "recv"
    /\ UNCHANGED <<is_paused, stop_event, audio_queue, translation_queue,
                   since_audio, since_response, restarts, audio_is_real,
                   frame_seq, last_exit>>
    /\ UNCHANGED <<fanVars, frameVars>>
    /\ sess_lang' = curr_lang
    /\ cooled' = 0
    /\ last_error' = "none"
    /\ UNCHANGED <<lost, curr_lang, produced, orig_code, slave, main_pc>>

\* One pass of the loop head up to the streaming_recognize call: the stop
\* test, start_time = time.time(), last_google_response_time = time.time(),
\* a new generator object handed to a new call.
StartSession ==
    /\ tpc = "loop"
    /\ ~stop_event
    /\ session < MaxSessions
    /\ session' = session + 1
    /\ since_start' = 0
    /\ since_response' = 0
    /\ gen' = [gen EXCEPT ![session + 1] =
                  [NoGen EXCEPT !.pc = "config", !.born = restarts,
                                !.read = curr_lang]]
    /\ paused_all' = is_paused
    /\ tpc' = "recv"
    /\ UNCHANGED <<is_paused, stop_event, audio_queue, translation_queue,
                   since_audio, restarts, audio_is_real, frame_seq, last_exit>>
    /\ UNCHANGED <<fanVars, frameVars>>
    /\ sess_lang' = curr_lang
    /\ cooled' = 0
    /\ last_error' = "none"
    /\ UNCHANGED <<lost, curr_lang, produced, orig_code, slave, main_pc>>

\* while not self.stop_event.is_set() is false: transcribe_loop returns.
LoopExit ==
    /\ tpc = "loop"
    /\ stop_event
    /\ tpc' = "exit"
    /\ UNCHANGED <<is_paused, stop_event, audio_queue, translation_queue,
                   session, gen, since_start, since_audio, since_response,
                   restarts, paused_all, audio_is_real, frame_seq, last_exit>>
    /\ UNCHANGED <<fanVars, frameVars, otherVars>>

\* What one response carries: no results, an interim result, a final result
\* whose stripped transcript is empty, a final result with text.
ResponseKinds == {"no_results", "interim", "final_blank", "final_text"}
QuietKinds == {"no_results", "interim", "final_blank"}

\* The body of `for response in responses`, for one response of kind r.  The
\* service answers on a call whose configuration request it has received.
Response(r) ==
    /\ tpc = "recv"
    /\ gen[session].pc \notin {"config"}
    /\ r = "final_text" => uttered < MaxUtterances
    /\ since_response' = 0
    /\ IF stop_event
         THEN tpc' = "loop" /\ UNCHANGED <<translation_queue, uttered>>
         ELSE /\ tpc' = tpc
              /\ IF r = "final_text"
                   THEN /\ translation_queue' =
                             Append(translation_queue, uttered + 1)
                        /\ uttered' = uttered + 1
                   ELSE UNCHANGED <<translation_queue, uttered>>
    /\ UNCHANGED <<is_paused, stop_event, audio_queue, session, gen,
                   since_start, since_audio, restarts, paused_all,
                   audio_is_real, frame_seq, last_exit>>
    /\ UNCHANGED <<clients, port_clients, disp, tasks>>
    /\ UNCHANGED frameVars
    /\ UNCHANGED <<lost, curr_lang, sess_lang, orig_code, cooled, slave,
                   last_error, main_pc>>
    /\ produced' = IF ~stop_event /\ r = "final_text"
                    THEN [produced EXCEPT ![uttered + 1] = sess_lang]
                    ELSE produced

\* The response iterator ends without an exception: the request generator has
\* returned (the request stream is half-closed) and the service closes.
CallEnds ==
    /\ tpc = "recv"
    /\ gen[session].pc = "done"
    /\ tpc' = "loop"
    /\ UNCHANGED <<is_paused, stop_event, audio_queue, translation_queue,
                   session, gen, since_start, since_audio, since_response,
                   restarts, paused_all, audio_is_real, frame_seq, last_exit>>
    /\ UNCHANGED <<fanVars, frameVars, otherVars>>

\* A variant that restarts at once after every error: C26 does not hold of
\* it.
CallExceptionNoSleep(expected) ==
    /\ tpc = "recv"
    /\ tpc' = "loop"
    /\ cooled' = 0
    /\ last_error' = IF expected THEN "expected" ELSE "other"
    /\ UNCHANGED <<is_paused, stop_event, audio_queue, translation_queue,
                   session, gen, since_start, since_audio, since_response,
                   restarts, paused_all, audio_is_real, frame_seq, last_exit>>
    /\ UNCHANGED <<fanVars, frameVars>>
    /\ UNCHANGED <<lost, curr_lang, sess_lang, produced, orig_code, slave,
                   main_pc>>

\* The streaming call raises: an expected closure restarts at once, any other
\* error sleeps first.  Nothing here touches the generator.
CallException(expected) ==
    /\ tpc = "recv"
    /\ tpc' = IF expected THEN "loop" ELSE "cooldown"
    /\ cooled' = 0
    /\ last_error' = IF expected THEN "expected" ELSE "other"
    /\ UNCHANGED <<is_paused, stop_event, audio_queue, translation_queue,
                   session, gen, since_start, since_audio, since_response,
                   restarts, paused_all, audio_is_real, frame_seq, last_exit>>
    /\ UNCHANGED <<fanVars, frameVars>>
    /\ UNCHANGED <<lost, curr_lang, sess_lang, produced, orig_code, slave,
                   main_pc>>

\* time.sleep(1) returns.
Cooldown ==
    /\ tpc = "cooldown"
    /\ cooled >= COOLDOWN
    /\ tpc' = "loop"
    /\ UNCHANGED <<is_paused, stop_event, audio_queue, translation_queue,
                   session, gen, since_start, since_audio, since_response,
                   restarts, paused_all, audio_is_real, frame_seq, last_exit>>
    /\ UNCHANGED <<fanVars, frameVars, otherVars>>

\* ---------------------------------------------------------------------
\* The event loop: commands and the capture thread's hand-off.
\* ---------------------------------------------------------------------

\* toggle_pause(): self.is_paused = not self.is_paused
toggle_pause ==
    /\ is_paused' = ~is_paused
    /\ paused_all' = FALSE
    /\ gen' = [s \in Sessions |-> [gen[s] EXCEPT !.kept = FALSE]]

\* the 'p' command
TogglePause ==
    /\ toggle_pause
    /\ UNCHANGED <<stop_event, audio_queue, translation_queue, session, tpc,
                   since_start, since_audio, since_response, restarts,
                   audio_is_real, frame_seq, last_exit>>
    /\ UNCHANGED <<fanVars, frameVars, otherVars>>

\* restart_signal(): drain the queue, then put the sentinel.  It runs on the
\* event loop, as the capture hand-off does, so no frame is put in between.
RestartSignalNoDrain(n) ==
    /\ restarts < n
    /\ audio_queue' = Append(audio_queue, RESTART_STREAM)
    /\ restarts' = restarts + 1
    /\ UNCHANGED <<is_paused, stop_event, translation_queue, session, tpc,
                   gen, since_start, since_audio, since_response, paused_all,
                   audio_is_real, frame_seq, last_exit>>
    /\ UNCHANGED <<fanVars, frameVars, otherVars>>

RestartSignalWithin(n) ==
    /\ restarts < n
    /\ audio_queue' = <<RESTART_STREAM>>
    /\ restarts' = restarts + 1
    /\ UNCHANGED <<is_paused, stop_event, translation_queue, session, tpc,
                   gen, since_start, since_audio, since_response, paused_all,
                   audio_is_real, frame_seq, last_exit>>
    /\ UNCHANGED <<fanVars, frameVars, otherVars>>

RestartSignal == RestartSignalWithin(MaxRestarts)

\* a language code typed at the console: cfg.curr_lang = user_input, then
\* transcriber.restart_signal()
SwitchLanguage(l) ==
    /\ restarts < MaxRestarts
    /\ curr_lang' = l
    /\ audio_queue' = <<RESTART_STREAM>>
    /\ restarts' = restarts + 1
    /\ UNCHANGED <<is_paused, stop_event, translation_queue, session, tpc,
                   gen, since_start, since_audio, since_response, paused_all,
                   audio_is_real, frame_seq, last_exit>>
    /\ UNCHANGED <<fanVars, frameVars>>
    /\ UNCHANGED <<lost, sess_lang, produced, orig_code, cooled, slave,
                   last_error, main_pc>>

\* audio_stream: loop.call_soon_threadsafe(self.audio_queue.put_nowait, bytes)
Produce ==
    /\ ~stop_event
    /\ Len(audio_queue) < MaxQueue
    /\ audio_queue' = Append(audio_queue, Frame(restarts, frame_seq))
    /\ frame_seq' = 1 - frame_seq
    /\ UNCHANGED <<is_paused, stop_event, translation_queue, session, tpc,
                   gen, since_start, since_audio, since_response, restarts,
                   paused_all, audio_is_real, last_exit>>
    /\ UNCHANGED <<fanVars, frameVars, otherVars>>

\* the 'q' command: stop_event.set()
Quit ==
    /\ ~stop_event
    /\ stop_event' = TRUE
    /\ UNCHANGED <<is_paused, audio_queue, translation_queue, session, tpc,
                   gen, since_start, since_audio, since_response, restarts,
                   paused_all, audio_is_real, frame_seq, last_exit>>
    /\ UNCHANGED <<fanVars, frameVars, otherVars>>

\* One second passes.  Time passes while the threads are inside blocking
\* calls: code between two blocking calls takes no time, the library pulls
\* and sends a request that is ready without delay, and a generator inside
\* audio_queue.get(timeout=1) leaves the call before more than the timeout
\* has gone by.
Tick ==
    /\ \A s \in Sessions :
          /\ gen[s].pc \notin {"config", "head", "check", "yield"}
          /\ gen[s].pc = "get" => gen[s].lag < QUEUE_TIMEOUT
    /\ tpc = "loop" => (session = MaxSessions \/ stop_event)
    /\ since_start' = Sat(since_start + 1, StartCap)
    /\ since_audio' = Sat(since_audio + 1, AudioCap)
    /\ since_response' = Sat(since_response + 1, RespCap)
    /\ gen' = [s \in Sessions |->
                 IF gen[s].pc = "get" THEN [gen[s] EXCEPT !.lag = @ + 1]
                                      ELSE gen[s]]
    /\ UNCHANGED <<is_paused, stop_event, audio_queue, translation_queue,
                   session, tpc, restarts, paused_all, audio_is_real,
                   frame_seq, last_exit>>
    /\ UNCHANGED <<fanVars, frameVars>>
    /\ UNCHANGED <<lost, curr_lang, sess_lang, produced, orig_code, slave,
                   last_error, main_pc>>
    /\ tpc = "cooldown" => cooled < COOLDOWN
    /\ cooled' = IF tpc = "cooldown" THEN cooled + 1 ELSE cooled

\* The first seconds of a session only, and the seconds of the sleep after
\* an unexpected error.
TickEarly ==
    /\ since_start < Horizon \/ tpc = "cooldown"
    /\ Tick

Next ==
    \/ \E s \in Sessions : GenStep(s)
    \/ StartSession
    \/ LoopExit
    \/ \E r \in QuietKinds : Response(r)
    \/ CallEnds
    \/ \E e \in BOOLEAN : CallException(e)
    \/ Cooldown
    \/ TogglePause
    \/ RestartSignal
    \/ Produce
    \/ Quit
    \/ TickEarly

Spec == Init /\ [][Next]_vars

\* Weak fairness: every runnable thread is scheduled, the library pulls a
\* request that is ready, a call whose request stream is closed completes.
Fairness ==
    /\ \A s \in Sessions : WF_vars(GenStep(s))
    /\ WF_vars(StartSession)
    /\ WF_vars(LoopExit)
    /\ WF_vars(CallEnds)
    /\ WF_vars(Cooldown)
    /\ WF_vars(tpc = "cooldown" /\ Tick)

SpecDrain == Spec /\ Fairness

\* The first StallHorizon seconds of a session: long enough for stall
\* detection, which needs more than STALL_SILENT seconds without a response.
TickStall ==
    /\ since_start < StallHorizon
    /\ Tick

\* Sessions without remote failures and language switches.
NextStall ==
    \/ \E s \in Sessions : GenStep(s)
    \/ StartSession
    \/ LoopExit
    \/ \E r \in QuietKinds : Response(r)
    \/ CallEnds
    \/ TogglePause
    \/ Produce
    \/ Quit
    \/ TickStall

SpecStall == Init /\ [][NextStall]_vars

\* Whole sessions, up to the time limit, in the state the engine starts in
\* (paused): frames arrive and are discarded.
NextExpiry ==
    \/ \E s \in Sessions : GenConfig(s)
    \/ \E s \in Sessions : GenHead(s)
    \/ \E s \in Sessions : GenGet(s)
    \/ \E s \in Sessions : GenEmpty(s)
    \/ \E s \in Sessions : GenCheck(s)
    \/ StartSession
    \/ CallEnds
    \/ Produce
    \/ Tick

SpecExpiry ==
    /\ Init
    /\ [][NextExpiry]_vars
    /\ \A s \in Sessions : WF_vars(GenStep(s))
    /\ WF_vars(StartSession)
    /\ WF_vars(CallEnds)
    /\ WF_vars(Tick)

\* ---------------------------------------------------------------------
\* The fan-out dispatcher: MasterTranslationEngine.translate_loop (a worker
\* thread) and the coroutines it schedules on the event loop.
\* Positions of the dispatcher: "get" (translation_queue.get), "check" (the
\* skip test for the language disp.lang), "translate", "web", "web_wait",
\* "port", "port_wait", "sleep" (after an error), "exit".
\* ---------------------------------------------------------------------

\* the dispatcher goes on to the next target language, or to the next
\* utterance after the last one
NextLang ==
    IF disp.lang < NumLangs
      THEN [Idle EXCEPT !.pc = "check", !.utt = disp.utt,
                        !.lang = disp.lang + 1]
      ELSE Idle

\* asyncio.run_coroutine_threadsafe(coroutine, loop): the coroutine starts,
\* for the utterance and the language the dispatcher is at
\* The coroutine's locals are part of its record: members is the subscriber
\* set as it was when the coroutine began to iterate it, seen the subscribers
\* the iteration has got to, raised those whose write or send raised (the
\* list 'disconnected' of broadcast_audio), cur the subscriber whose drain is
\* awaited.  lang is the language the text was translated for, port the
\* LanguagePortServer whose broadcast_audio it is (0: broadcast_message).
Coroutine(kind, utt, lang, port, first) ==
    [kind |-> kind, utt |-> utt, lang |-> lang, port |-> port, pc |-> first,
     members |-> {}, seen |-> {}, raised |-> {}, cur |-> 0]

\* A variant that hands every language to the first port server: C17 does
\* not hold of it.
FirstPortServer(i) == 1

\* self.port_servers.get(dest_code): main keys each LanguagePortServer by the
\* language code it was constructed with
PortServer(i) == i

Schedule(kind, port, first) ==
    tasks \cup {Coroutine(kind, disp.utt, disp.lang, port, first)}

\* the future the dispatcher waits on is not done yet
Pending(kind) ==
    \E t \in tasks : t.kind = kind /\ t.utt = disp.utt /\ t.lang = disp.lang

\* task t moves to position pc, or finishes
Moved(t, pc) ==
    IF pc = "done" THEN tasks \ {t}
                   ELSE (tasks \ {t}) \cup {[t EXCEPT !.pc = pc]}

\* task t goes on as record u
Becomes(t, u) == (tasks \ {t}) \cup {u}

\* The event loop runs one coroutine at a time and switches at an await
\* only.  broadcast_audio between the return of generate_audio and its next
\* suspended drain holds the loop: no handler and no other coroutine runs.
Running == \E t \in tasks : t.pc = "send"

\* the 'nt' command: translation_queue.put("New Talk")
NewTalk ==
    /\ ~stop_event
    /\ uttered < MaxUtterances
    /\ translation_queue' = Append(translation_queue, uttered + 1)
    /\ uttered' = uttered + 1
    /\ UNCHANGED <<is_paused, stop_event, audio_queue, session, tpc, gen,
                   since_start, since_audio, since_response, restarts,
                   paused_all, audio_is_real, frame_seq, last_exit>>
    /\ UNCHANGED <<clients, port_clients, disp, tasks>>
    /\ UNCHANGED frameVars
    /\ UNCHANGED <<lost, curr_lang, sess_lang, orig_code, cooled, slave,
                   last_error, main_pc>>
    /\ produced' = [produced EXCEPT ![uttered + 1] = curr_lang]

\* A variant that reads the head of the queue and leaves it there: C23 does
\* not hold of it.
DispatchPeek ==
    /\ disp.pc = "get"
    /\ ~stop_event
    /\ translation_queue # <<>>
    /\ disp' = [Idle EXCEPT !.pc = "check", !.utt = Head(translation_queue),
                             !.lang = 1]
    /\ UNCHANGED <<sessVars, frameVars, otherVars>>
    /\ UNCHANGED <<clients, port_clients, tasks, uttered>>

\* original_text = self.translation_queue.get(timeout=1) and the first pass
\* of the for loop over target_languages
DispatchGet ==
    /\ disp.pc = "get"
    /\ ~stop_event
    /\ translation_queue # <<>>
    /\ translation_queue' = Tail(translation_queue)
    /\ disp' = [Idle EXCEPT !.pc = "check", !.utt = Head(translation_queue),
                             !.lang = 1]
    /\ UNCHANGED <<is_paused, stop_event, audio_queue, session, tpc, gen,
                   since_start, since_audio, since_response, restarts,
                   paused_all, audio_is_real, frame_seq, last_exit>>
    /\ UNCHANGED <<clients, port_clients, tasks, uttered>>
    /\ UNCHANGED <<frameVars, otherVars>>

\* queue.Empty: continue, and the loop head reads config.curr_lang again
DispatchEmpty ==
    /\ disp.pc = "get"
    /\ ~stop_event
    /\ translation_queue = <<>>
    /\ orig_code' = curr_lang
    /\ UNCHANGED <<sessVars, fanVars, frameVars>>
    /\ UNCHANGED <<lost, curr_lang, sess_lang, produced, cooled, slave,
                   last_error, main_pc>>

\* while not self.stop_event.is_set() is false: translate_loop returns
DispatchExit ==
    /\ disp.pc = "get"
    /\ stop_event
    /\ disp' = [disp EXCEPT !.pc = "exit"]
    /\ UNCHANGED <<sessVars, frameVars, otherVars>>
    /\ UNCHANGED <<clients, port_clients, tasks, uttered>>

\* A variant that looks at the language's channel only: C10 does not hold
\* of it.
NoPortSubscribers(i) == port_clients[i] = {}

\* if not port_server.clients and not self.network_server.clients: return
NoSubscribers(i) == port_clients[PortServer(i)] = {} /\ clients = {}

\* process_and_broadcast_single_lang up to the skip test.  port_servers has
\* an entry for every target language (main builds it from target_languages).
DispatchCheck ==
    /\ disp.pc = "check"
    /\ disp' = IF NoSubscribers(disp.lang)
                 THEN NextLang
                 ELSE [disp EXCEPT !.pc = "translate", !.b = clients # {},
                                   !.l = port_clients[PortServer(disp.lang)]
                                           # {}]
    /\ UNCHANGED <<sessVars, frameVars>>
    /\ UNCHANGED <<lost, curr_lang, sess_lang, produced, cooled, slave,
                   last_error, main_pc>>
    /\ UNCHANGED <<clients, port_clients, tasks, uttered>>
    /\ orig_code' = IF disp'.pc = "get" /\ ~stop_event THEN curr_lang
                                                       ELSE orig_code

\* A variant in which a failed translation ends translate_loop: C27 does not
\* hold of it.
DispatchTranslateFatal(ok) ==
    /\ disp.pc = "translate"
    /\ disp' = IF ok THEN [disp EXCEPT !.pc = "web"]
                     ELSE [Idle EXCEPT !.pc = "exit"]
    /\ UNCHANGED <<sessVars, frameVars, otherVars>>
    /\ UNCHANGED <<clients, port_clients, tasks, uttered>>

\* translated_text = self.synchronous_translate(...).  When the call raises,
\* the exception leaves process_and_broadcast_single_lang and the for loop:
\* translate_loop prints it and sleeps.
DispatchTranslate(ok) ==
    /\ disp.pc = "translate"
    /\ disp' = IF ok THEN [disp EXCEPT !.pc = "web"]
                     ELSE [Idle EXCEPT !.pc = "sleep"]
    /\ UNCHANGED <<sessVars, frameVars, otherVars>>
    /\ UNCHANGED <<clients, port_clients, tasks, uttered>>

\* time.sleep(1) returns
DispatchSleep ==
    /\ disp.pc = "sleep"
    /\ disp' = Idle
    /\ UNCHANGED <<sessVars, frameVars>>
    /\ UNCHANGED <<lost, curr_lang, sess_lang, produced, cooled, slave,
                   last_error, main_pc>>
    /\ UNCHANGED <<clients, port_clients, tasks, uttered>>
    /\ orig_code' = IF disp'.pc = "get" /\ ~stop_event THEN curr_lang
                                                       ELSE orig_code

\* if self.network_server.clients: schedule broadcast_message
DispatchWeb ==
    /\ disp.pc = "web"
    /\ IF clients # {}
         THEN /\ tasks' = Schedule("web", 0, "run")
              /\ disp' = [disp EXCEPT !.pc = "web_wait"]
         ELSE /\ disp' = [disp EXCEPT !.pc = "port"]
              /\ UNCHANGED tasks
    /\ UNCHANGED <<sessVars, frameVars, otherVars>>
    /\ UNCHANGED <<clients, port_clients, uttered>>

\* A variant without the timeout argument: C13 does not hold of it.
TimeoutNever == FALSE

\* the timeout of the future.result() the dispatcher is in has run out
TimeoutDue ==
    disp.waited >= (IF disp.pc = "web_wait" THEN WEB_TIMEOUT
                                            ELSE PORT_TIMEOUT)

\* A second passes while the dispatcher waits on a future that is not done.
\* The wait ends when its timeout is due, so no time passes beyond that.
DispatchWaitTick ==
    /\ \/ disp.pc = "web_wait" /\ Pending("web")
       \/ disp.pc = "port_wait" /\ Pending("audio")
    /\ ~TimeoutDue
    /\ disp.waited <= PORT_TIMEOUT
    /\ disp' = [disp EXCEPT !.waited = @ + 1]
    /\ UNCHANGED <<sessVars, frameVars, otherVars>>
    /\ UNCHANGED <<clients, port_clients, tasks, uttered>>

\* future.result(timeout=10) returns, or raises: the coroutine's exception,
\* or TimeoutError once the timeout is due (the coroutine keeps running).
\* 'except Exception' prints it; either way the dispatcher goes on.
DispatchWebWait(timed_out) ==
    /\ disp.pc = "web_wait"
    /\ IF timed_out THEN Pending("web") /\ TimeoutDue
                    ELSE ~Pending("web")
    /\ disp' = [disp EXCEPT !.pc = "port", !.waited = 0]
    /\ UNCHANGED <<sessVars, frameVars, otherVars>>
    /\ UNCHANGED <<clients, port_clients, tasks, uttered>>

\* if port_server.clients: schedule port_server.broadcast_audio
DispatchPort ==
    /\ disp.pc = "port"
    /\ IF port_clients[PortServer(disp.lang)] # {}
         THEN /\ tasks' = Schedule("audio", PortServer(disp.lang), "enter")
              /\ disp' = [disp EXCEPT !.pc = "port_wait"]
         ELSE /\ disp' = NextLang
              /\ UNCHANGED tasks
    /\ UNCHANGED <<sessVars, frameVars>>
    /\ UNCHANGED <<lost, curr_lang, sess_lang, produced, cooled, slave,
                   last_error, main_pc>>
    /\ UNCHANGED <<clients, port_clients, uttered>>
    /\ orig_code' = IF disp'.pc = "get" /\ ~stop_event THEN curr_lang
                                                       ELSE orig_code

\* future.result(timeout=15) returns or raises
DispatchPortWait(timed_out) ==
    /\ disp.pc = "port_wait"
    /\ IF timed_out THEN Pending("audio") /\ TimeoutDue
                    ELSE ~Pending("audio")
    /\ disp' = NextLang
    /\ UNCHANGED <<sessVars, frameVars>>
    /\ UNCHANGED <<lost, curr_lang, sess_lang, produced, cooled, slave,
                   last_error, main_pc>>
    /\ UNCHANGED <<clients, port_clients, tasks, uttered>>
    /\ orig_code' = IF disp'.pc = "get" /\ ~stop_event THEN curr_lang
                                                       ELSE orig_code

\* NetworkServer.broadcast_message, scheduled as task t, up to its await:
\* nothing to do without clients, else one send task per client of the set
\* as it is now
BroadcastMessage(t) ==
    /\ t.kind = "web"
    /\ t.pc = "run"
    /\ ~Running
    /\ tasks' = IF clients = {}
                  THEN Moved(t, "done")
                  ELSE Becomes(t, [t EXCEPT !.pc = "wait", !.members = clients])
    /\ UNCHANGED <<sessVars, frameVars, otherVars>>
    /\ UNCHANGED <<clients, port_clients, disp, uttered>>

\* client.send(message) of one send task ends: the message went out, or the
\* send raised (it always does on a connection that is broken or whose
\* handler has ended).  The exception stays in the send task; nothing looks
\* at it.
ClientSend(t, c, ok) ==
    /\ t.kind = "web"
    /\ t.pc = "wait"
    /\ ~Running
    /\ c \in t.members \ t.seen
    /\ ok => c \in clients \ lost[0]
    /\ tasks' = Becomes(t, [t EXCEPT !.seen = @ \cup {c},
                                     !.raised = IF ok THEN @ ELSE @ \cup {c}])
    /\ lost' = IF ~ok /\ c \in clients
                THEN [lost EXCEPT ![0] = @ \cup {c}] ELSE lost
    /\ UNCHANGED <<sessVars, frameVars>>
    /\ UNCHANGED <<clients, port_clients, disp, uttered>>
    /\ UNCHANGED <<curr_lang, sess_lang, produced, orig_code, cooled, slave,
                   last_error, main_pc>>

\* asyncio.wait returns once every send task is done: broadcast_message
\* returns
BroadcastMessageDone(t) ==
    /\ t.kind = "web"
    /\ t.pc = "wait"
    /\ ~Running
    /\ t.seen = t.members
    /\ tasks' = Moved(t, "done")
    /\ UNCHANGED <<sessVars, frameVars, otherVars>>
    /\ UNCHANGED <<clients, port_clients, disp, uttered>>

\* LanguagePortServer.broadcast_audio up to its first await: return when
\* there is no client, else hand generate_audio to the executor
BroadcastAudioEnter(t) ==
    /\ t.kind = "audio"
    /\ t.pc = "enter"
    /\ ~Running
    /\ IF port_clients[t.port] = {}
         THEN tasks' = Moved(t, "done")
         ELSE tasks' = Moved(t, "tts")
    /\ UNCHANGED <<sessVars, frameVars, otherVars>>
    /\ UNCHANGED <<clients, port_clients, disp, uttered>>

\* A variant with a fallback: without audio it goes on to the subscribers
\* all the same.  C39 does not hold of it.
BroadcastAudioTtsFallback(t, ok) ==
    /\ t.kind = "audio"
    /\ t.pc = "tts"
    /\ ~Running
    /\ tasks' = Becomes(t, [t EXCEPT !.pc = "send",
                                      !.members = port_clients[t.port]])
    /\ UNCHANGED <<sessVars, frameVars, otherVars>>
    /\ UNCHANGED <<clients, port_clients, disp, uttered>>

\* generate_audio returns: None after a failure, and broadcast_audio
\* returns; or the audio, and broadcast_audio frames the message and begins
\* 'for reader, writer in self.clients'
BroadcastAudioTts(t, ok) ==
    /\ t.kind = "audio"
    /\ t.pc = "tts"
    /\ ~Running
    /\ tasks' = IF ok
                  THEN Becomes(t, [t EXCEPT !.pc = "send",
                                            !.members = port_clients[t.port]])
                  ELSE Moved(t, "done")
    /\ UNCHANGED <<sessVars, frameVars, otherVars>>
    /\ UNCHANGED <<clients, port_clients, disp, uttered>>

\* The set iterator of the for loop.  It raises RuntimeError ("Set changed
\* size during iteration") when the set has another size than when the loop
\* began.
SetChangedSize(t) ==
    Cardinality(port_clients[t.port]) # Cardinality(t.members)

\* The subscribers the iterator can still yield.  After an add and a remove
\* that left the size as it was, the slot a new subscriber went to may lie on
\* either side of the iterator's position.
Unvisited(t) == port_clients[t.port] \ t.seen

\* The iterator may be exhausted: nothing is left, or the set is not the one
\* the loop began with.
Exhausted(t) ==
    \/ Unvisited(t) = {}
    \/ port_clients[t.port] # t.members

WriteOutcomes == {"sent", "raised", "blocked"}

\* One pass of the for loop: writer.write(full_message) and
\* await writer.drain() for the next client c.  The write raises and c goes
\* to 'disconnected'; or the drain returns at once; or the transport's buffer
\* is over its limit and the drain suspends broadcast_audio.  A transport
\* that lost its connection takes no data, and its drain raises.
\* Outcomes: "sent", "raised", "blocked".
BroadcastAudioWrite(t, c, outcome) ==
    /\ t.kind = "audio"
    /\ t.pc = "send"
    /\ ~SetChangedSize(t)
    /\ c \in Unvisited(t)
    /\ outcome # "raised" => c \notin lost[t.port]
    /\ tasks' = Becomes(t,
         CASE outcome = "sent"    -> [t EXCEPT !.seen = @ \cup {c}]
           [] outcome = "raised"  -> [t EXCEPT !.seen = @ \cup {c},
                                               !.raised = @ \cup {c}]
           [] outcome = "blocked" -> [t EXCEPT !.pc = "drain", !.cur = c])
    /\ lost' = IF outcome = "raised"
                THEN [lost EXCEPT ![t.port] = @ \cup {c}] ELSE lost
    /\ UNCHANGED <<sessVars, frameVars>>
    /\ UNCHANGED <<clients, port_clients, disp, uttered>>
    /\ UNCHANGED <<curr_lang, sess_lang, produced, orig_code, cooled, slave,
                   last_error, main_pc>>

\* the suspended drain returns, or raises (connection lost)
BroadcastAudioDrained(t, ok) ==
    /\ t.kind = "audio"
    /\ t.pc = "drain"
    /\ ~Running
    /\ ok => t.cur \in port_clients[t.port] \ lost[t.port]
    /\ tasks' = Becomes(t, [t EXCEPT !.pc = "send", !.cur = 0,
                                     !.seen = @ \cup {t.cur},
                                     !.raised = IF ok THEN @
                                                      ELSE @ \cup {t.cur}])
    /\ lost' = IF ~ok /\ t.cur \in port_clients[t.port]
                THEN [lost EXCEPT ![t.port] = @ \cup {t.cur}] ELSE lost
    /\ UNCHANGED <<sessVars, frameVars>>
    /\ UNCHANGED <<clients, port_clients, disp, uttered>>
    /\ UNCHANGED <<curr_lang, sess_lang, produced, orig_code, cooled, slave,
                   last_error, main_pc>>

\* The iterator raises RuntimeError.  The for statement is in no try block:
\* broadcast_audio ends with the exception, the clients in 'disconnected'
\* stay in the set, and the dispatcher's future.result() raises.
BroadcastAudioSetChanged(t) ==
    /\ t.kind = "audio"
    /\ t.pc = "send"
    /\ SetChangedSize(t)
    /\ tasks' = Moved(t, "done")
    /\ UNCHANGED <<sessVars, frameVars, otherVars>>
    /\ UNCHANGED <<clients, port_clients, disp, uttered>>

\* The loop ends; for client in disconnected: self.clients.discard(client)
BroadcastAudioDone(t) ==
    /\ t.kind = "audio"
    /\ t.pc = "send"
    /\ ~SetChangedSize(t)
    /\ Exhausted(t)
    /\ port_clients' = [port_clients EXCEPT ![t.port] = @ \ t.raised]
    /\ tasks' = Moved(t, "done")
    /\ UNCHANGED <<sessVars, frameVars, otherVars>>
    /\ UNCHANGED <<clients, disp, uttered>>

\* A variant that toggles the flag for every first viewer, paused or not:
\* C22 does not hold of it.
WebConnectBlind(c) ==
    /\ c \notin clients
    /\ ~Running
    /\ clients' = clients \cup {c}
    /\ IF clients = {}
         THEN toggle_pause
         ELSE UNCHANGED <<is_paused, paused_all, gen>>
    /\ UNCHANGED <<stop_event, audio_queue, translation_queue, session, tpc,
                   since_start, since_audio, since_response, restarts,
                   audio_is_real, frame_seq, last_exit>>
    /\ UNCHANGED <<port_clients, disp, tasks, uttered>>
    /\ UNCHANGED <<frameVars, otherVars>>

\* websocket_handler up to its receive loop: a viewer connects; the first
\* one resumes a paused transcriber
WebConnect(c) ==
    /\ c \notin clients
    /\ ~Running
    /\ clients' = clients \cup {c}
    /\ IF clients = {} /\ is_paused
         THEN toggle_pause
         ELSE UNCHANGED <<is_paused, paused_all, gen>>
    /\ UNCHANGED <<stop_event, audio_queue, translation_queue, session, tpc,
                   since_start, since_audio, since_response, restarts,
                   audio_is_real, frame_seq, last_exit>>
    /\ UNCHANGED <<port_clients, disp, tasks, uttered>>
    /\ UNCHANGED <<frameVars, otherVars>>

\* A variant of the handler's finally block without the pause of the
\* transcriber: C37 does not hold of it.
WebDisconnectNoPause(c) ==
    /\ c \in clients
    /\ ~Running
    /\ clients' = clients \ {c}
    /\ lost' = [lost EXCEPT ![0] = @ \ {c}]
    /\ UNCHANGED <<sessVars, frameVars>>
    /\ UNCHANGED <<port_clients, disp, tasks, uttered>>
    /\ UNCHANGED <<curr_lang, sess_lang, produced, orig_code, cooled, slave,
                   last_error, main_pc>>

\* websocket_handler's finally block: a viewer leaves; the last one pauses
\* the transcriber
WebDisconnect(c) ==
    /\ c \in clients
    /\ ~Running
    /\ clients' = clients \ {c}
    /\ lost' = [lost EXCEPT ![0] = @ \ {c}]
    /\ IF clients = {c} /\ ~is_paused
         THEN toggle_pause
         ELSE UNCHANGED <<is_paused, paused_all, gen>>
    /\ UNCHANGED <<stop_event, audio_queue, translation_queue, session, tpc,
                   since_start, since_audio, since_response, restarts,
                   audio_is_real, frame_seq, last_exit>>
    /\ UNCHANGED <<port_clients, disp, tasks, uttered>>
    /\ UNCHANGED frameVars
    /\ UNCHANGED <<curr_lang, sess_lang, produced, orig_code, cooled, slave,
                   last_error, main_pc>>

\* A variant that resumes a paused transcriber, as the broadcast channel's
\* handler does: C38 does not hold of it.
SlaveConnectResumes(i, c) ==
    /\ c \notin port_clients[i] \cup lost[i]
    /\ ~Running
    /\ port_clients' = [port_clients EXCEPT ![i] = @ \cup {c}]
    /\ IF port_clients[i] = {} /\ is_paused
         THEN toggle_pause
         ELSE UNCHANGED <<is_paused, paused_all, gen>>
    /\ UNCHANGED <<stop_event, audio_queue, translation_queue, session, tpc,
                   since_start, since_audio, since_response, restarts,
                   audio_is_real, frame_seq, last_exit>>
    /\ UNCHANGED <<frameVars, otherVars>>
    /\ UNCHANGED <<clients, disp, tasks, uttered>>

\* handle_client: self.clients.add((reader, writer))
SlaveConnect(i, c) ==
    /\ c \notin port_clients[i] \cup lost[i]
    /\ ~Running
    /\ port_clients' = [port_clients EXCEPT ![i] = @ \cup {c}]
    /\ UNCHANGED <<sessVars, frameVars, otherVars>>
    /\ UNCHANGED <<clients, disp, tasks, uttered>>

\* A variant whose finally block closes the transport and leaves the
\* subscriber in the set: C21 does not hold of it.
SlaveStays(i, c) ==
    /\ c \in lost[i]
    /\ ~Running
    /\ lost' = [lost EXCEPT ![i] = @ \ {c}]
    /\ UNCHANGED <<sessVars, fanVars, frameVars>>
    /\ UNCHANGED <<curr_lang, sess_lang, produced, orig_code, cooled, slave,
                   last_error, main_pc>>

\* handle_client's read returns b'' or raises, and its finally block runs:
\* self.clients.discard((reader, writer)); writer.close()
SlaveDisconnect(i, c) ==
    /\ c \in port_clients[i] \cup lost[i]
    /\ ~Running
    /\ port_clients' = [port_clients EXCEPT ![i] = @ \ {c}]
    /\ lost' = [lost EXCEPT ![i] = @ \ {c}]
    /\ UNCHANGED <<sessVars, frameVars>>
    /\ UNCHANGED <<clients, disp, tasks, uttered>>
    /\ UNCHANGED <<curr_lang, sess_lang, produced, orig_code, cooled, slave,
                   last_error, main_pc>>

\* The dispatcher with its subscribers; utterances come from the 'nt'
\* command.
NextFanout ==
    \/ uttered < MaxTalks /\ NewTalk
    \/ Quit
    \/ DispatchGet
    \/ DispatchExit
    \/ DispatchCheck
    \/ \E ok \in BOOLEAN : DispatchTranslate(ok)
    \/ DispatchSleep
    \/ DispatchWeb
    \/ DispatchWaitTick
    \/ \E timed_out \in BOOLEAN : DispatchWebWait(timed_out)
    \/ DispatchPort
    \/ \E timed_out \in BOOLEAN : DispatchPortWait(timed_out)
    \/ \E t \in tasks : BroadcastMessage(t)
    \/ \E t \in tasks, c \in WebIds, ok \in BOOLEAN : ClientSend(t, c, ok)
    \/ \E t \in tasks : BroadcastMessageDone(t)
    \/ \E t \in tasks : BroadcastAudioEnter(t)
    \/ \E t \in tasks, ok \in BOOLEAN : BroadcastAudioTts(t, ok)
    \/ \E t \in tasks, c \in SlaveIds, outcome \in WriteOutcomes :
           BroadcastAudioWrite(t, c, outcome)
    \/ \E t \in tasks, ok \in BOOLEAN : BroadcastAudioDrained(t, ok)
    \/ \E t \in tasks : BroadcastAudioSetChanged(t)
    \/ \E t \in tasks : BroadcastAudioDone(t)
    \/ \E c \in WebIds : WebConnect(c)
    \/ \E c \in WebIds : WebDisconnect(c)
    \/ \E i \in Languages, c \in SlaveIds : SlaveConnect(i, c)
    \/ \E i \in Languages, c \in SlaveIds : SlaveDisconnect(i, c)

SpecFanout == Init /\ [][NextFanout]_vars

\* ---------------------------------------------------------------------
\* Properties of the session manager
\* ---------------------------------------------------------------------

\* The generator of session s returns from its loop head because of the
\* stall test (not the stop flag, not the time limit).
StallReturn(s) ==
    /\ GenHead(s)
    /\ ~stop_event
    /\ since_start < STREAM_LIMIT
    /\ gen'[s].pc = "done"

\* C1: at most one recognition session is live: once a later session has
\* started, no request generator of an earlier session dequeues from
\* audio_queue.
C1_NoStaleDequeue ==
    [][\A s \in Sessions : s < session => ~GenGet(s)]_vars

\* C2: no audio request is yielded to the remote service at a moment when
\* is_paused is true.
C2_NoAudioWhilePaused ==
    [][\A s \in Sessions : (GenYield(s) /\ Live(s)) => ~is_paused]_vars

\* C3 (as claimed): while paused stays true no request of any kind is sent:
\* neither the configuration request of a session started while paused, nor a
\* frame dequeued while paused.
C3_NoRequestWhilePaused ==
    [][\A s \in Sessions :
         /\ (GenConfig(s) /\ Live(s)) => ~paused_all
         /\ (GenYield(s) /\ Live(s)) => ~gen[s].kept]_vars

\* C3 (amended): a frame dequeued while is_paused is true, with is_paused
\* staying true up to the generator's pause test, is never yielded.
C3_PausedFrameNotYielded ==
    [][\A s \in Sessions : GenYield(s) => ~gen[s].kept]_vars

\* A run in which is_paused was never false since the first session began,
\* and in which that session's generator took a frame and went back to its
\* loop head: the frame was discarded.
C3_Witness ==
    /\ session = 1
    /\ paused_all
    /\ audio_is_real
    /\ gen[1].pc = "head"

\* C4: while paused, the frame at the head of audio_queue is eventually
\* removed (as long as is_paused stays true, stop is not set and the session
\* loop can still start sessions), and a frame dequeued while paused is
\* discarded, not sent.
HeadFrame(b) ==
    /\ audio_queue # <<>>
    /\ Head(audio_queue).kind = "audio"
    /\ Head(audio_queue).seq = b

C4_PausedFramesDrain ==
    /\ \A b \in {0, 1} :
         (HeadFrame(b) /\ is_paused)
           ~> (\/ ~HeadFrame(b)
               \/ ~is_paused
               \/ stop_event
               \/ (tpc = "loop" /\ session = MaxSessions))
    /\ [][\A s \in Sessions : (GenYield(s) /\ Live(s)) => ~gen[s].kept]_vars

\* Paused throughout, two frames were enqueued, and the first session's
\* generator has emptied the queue and waits for more.
C4_Witness ==
    /\ session = 1
    /\ paused_all
    /\ restarts = 0
    /\ audio_is_real
    /\ frame_seq = 0
    /\ audio_queue = <<>>
    /\ gen[1].pc = "get"

\* C5: pause never triggers staleness detection: in a session during which
\* is_paused has been true throughout, the stall test never ends the
\* generator.
C5_NoStallWhilePaused ==
    [][\A s \in Sessions : StallReturn(s) => ~paused_all]_vars

\* C6: stall detection does not fire when no frame has actually been received
\* in the last 2 s: when the stall test ends the generator,
\* last_audio_received_time was set by dequeuing a frame.
C6_NoStallWithoutFrames ==
    [][\A s \in Sessions : StallReturn(s) => audio_is_real]_vars

\* C7: a session whose age has reached STREAM_LIMIT terminates and is followed
\* by a new session with a fresh start_time (the last session the model
\* allows just terminates); a session starts only when no call is open.
C7_ExpiredSessionRestarts ==
    /\ \A n \in Sessions :
         (session = n /\ tpc = "recv" /\ since_start >= STREAM_LIMIT)
           ~> IF n < MaxSessions
                THEN session = n + 1 /\ tpc = "recv" /\ since_start < STREAM_LIMIT
                ELSE tpc = "loop"
    /\ [][session' # session =>
            /\ tpc = "loop"
            /\ session' = session + 1
            /\ since_start' = 0]_vars

\* The first session ended at the time limit and the second one is open.
C7_Witness ==
    /\ session = 2
    /\ tpc = "recv"
    /\ last_exit = "expired"

\* C8 (as claimed): once the stall condition holds, the session's generator
\* sends no further frame before it returns.
C8_StallStopsSending ==
    [][\A s \in Sessions :
         (since_audio < STALL_RECENT /\ since_response > STALL_SILENT /\ Live(s))
           => ~GenYield(s)]_vars

\* C8 (amended): when the stall condition holds at a loop-head check of a
\* session that has not expired and is not stopped, the generator returns at
\* that check, without dequeuing.
C8_StallAtHeadReturns ==
    [][\A s \in Sessions :
         (/\ GenHead(s)
          /\ ~stop_event
          /\ since_start < STREAM_LIMIT
          /\ since_audio < STALL_RECENT
          /\ since_response > STALL_SILENT)
           => (gen'[s].pc = "done" /\ last_exit' = "stall"
               /\ audio_queue' = audio_queue)]_vars

\* The generator of the open session has just returned on the stall test,
\* after a frame was really received.
C8_Witness ==
    /\ tpc = "recv"
    /\ session >= 1
    /\ gen[IF session = 0 THEN 1 ELSE session].pc = "done"
    /\ last_exit = "stall"
    /\ audio_is_real

\* C9: a frame enqueued after a restart sentinel is sent only to a session
\* started after that sentinel was enqueued.
C9_SentinelCutsSession ==
    [][\A s \in Sessions :
         (GenYield(s) /\ Live(s)) => gen[s].chunk.epoch <= gen[s].born]_vars

\* ---------------------------------------------------------------------
\* Properties of the fan-out dispatcher
\* ---------------------------------------------------------------------

\* C10 (as claimed): for each utterance and target language the dispatcher
\* goes on to translation exactly when the skip test sees a subscriber on the
\* broadcast channel or on the language's channel, and every language it
\* translates for has its synthesis requested as well.
C10_FanoutSkipRule ==
    [][/\ (disp.pc = "check" /\ disp' # disp)
            => (disp'.pc = "translate"
                  <=> (clients # {} \/ port_clients[disp.lang] # {}))
       /\ (disp.pc = "port" /\ disp' # disp) => disp'.pc = "port_wait"]_vars

\* C10 (amended): translation is invoked exactly when the skip test sees a
\* subscriber on either channel; synthesis is requested exactly when the
\* language's own channel has a subscriber once translation and the web
\* broadcast are over, and generate_audio is called exactly when it still
\* has one as broadcast_audio starts.  Broadcast subscribers alone cause no
\* synthesis.
C10_TranslateIffSubscribed ==
    [][/\ (disp.pc = "check" /\ disp' # disp)
            => (disp'.pc = "translate"
                  <=> (clients # {} \/ port_clients[disp.lang] # {}))
       /\ (disp.pc = "port" /\ disp' # disp)
            => (disp'.pc = "port_wait" <=> port_clients[disp.lang] # {})
       /\ \A t \in tasks :
            (t.kind = "audio" /\ t.pc = "enter" /\ t \notin tasks')
              => ([t EXCEPT !.pc = "tts"] \in tasks'
                    <=> port_clients[t.lang] # {})]_vars

\* The dispatcher has translated an utterance for a language that only
\* broadcast subscribers asked for, and is about to skip its synthesis.
C10_Witness ==
    /\ disp.pc = "port"
    /\ disp.b
    /\ ~disp.l
    /\ port_clients[disp.lang] = {}

\* ---------------------------------------------------------------------
\* Properties of the deliveries
\* ---------------------------------------------------------------------

\* The scenario of one viewer on the broadcast channel and nobody on the
\* language channels: the state after websocket_handler has added the viewer
\* and resumed the transcriber, with no further connection or disconnection.
InitScenario ==
    /\ is_paused = FALSE
    /\ stop_event = FALSE
    /\ audio_queue = <<>>
    /\ translation_queue = <<>>
    /\ session = 0
    /\ tpc = "loop"
    /\ gen = [s \in Sessions |-> NoGen]
    /\ since_start = 0
    /\ since_audio = 0
    /\ since_response = 0
    /\ restarts = 0
    /\ paused_all = FALSE
    /\ audio_is_real = FALSE
    /\ frame_seq = 0
    /\ last_exit = "none"
    /\ clients = {1}
    /\ port_clients = [i \in Languages |-> {}]
    /\ disp = Idle
    /\ tasks = {}
    /\ uttered = 0
    /\ payloads = <<>>
    /\ framed = 0
    /\ stream = <<>>
    /\ decoded = <<>>
    /\ InitOther

NextScenario ==
    \/ NewTalk
    \/ DispatchGet
    \/ DispatchCheck
    \/ \E ok \in BOOLEAN : DispatchTranslate(ok)
    \/ DispatchSleep
    \/ DispatchWeb
    \/ DispatchWaitTick
    \/ \E timed_out \in BOOLEAN : DispatchWebWait(timed_out)
    \/ DispatchPort
    \/ \E t \in tasks : BroadcastMessage(t)
    \/ \E t \in tasks, c \in WebIds, ok \in BOOLEAN : ClientSend(t, c, ok)
    \/ \E t \in tasks : BroadcastMessageDone(t)

SpecScenario == InitScenario /\ [][NextScenario]_vars

\* target_language_codes = es,fr: the dispatcher's first and second language
es == 1
fr == 2

\* In this step the send task of broadcast_message t for viewer c ends
\* without an exception: c has the payload of t.
WebDelivered(t, c) ==
    /\ t.kind = "web"
    /\ t.pc = "wait"
    /\ c \notin t.seen
    /\ [t EXCEPT !.seen = @ \cup {c}] \in tasks'

\* C11: with target languages {es, fr}, one broadcast subscriber and no
\* subscriber on a language channel, the dispatcher does not go on to
\* translate an utterance for fr, and no payload other than the es payload is
\* delivered to the subscriber.
C11_OnlyEsTranslated ==
    [][(Cardinality(clients) = 1 /\ \A i \in Languages : port_clients[i] = {})
         => /\ (disp.pc = "check" /\ disp.lang = fr)
                 => disp'.pc # "translate"
            /\ \A t \in tasks, c \in clients :
                 WebDelivered(t, c) => t.lang = es]_vars

\* C12: whatever happens to one target language of an utterance (translation,
\* synthesis or delivery raising or timing out), the dispatcher leaves that
\* language only to go on to the next target language of the same utterance.
C12_FailureIsolated ==
    [][(disp.lang \in Languages /\ disp.lang < NumLangs
          /\ disp'.lang # disp.lang)
         => (disp'.pc = "check" /\ disp'.lang = disp.lang + 1
               /\ disp'.utt = disp.utt)]_vars

\* The dispatcher thread and the clock keep running; nothing is assumed of
\* the coroutines on the event loop, which may never finish.
DispatcherFairness ==
    /\ WF_vars(DispatchWaitTick)
    /\ WF_vars(\E timed_out \in BOOLEAN : DispatchWebWait(timed_out))
    /\ WF_vars(\E timed_out \in BOOLEAN : DispatchPortWait(timed_out))

\* The dispatcher at work on an utterance while subscribers arrive and
\* slaves leave; nobody quits.
NextTimeout ==
    \/ uttered < MaxTalks /\ NewTalk
    \/ DispatchGet
    \/ DispatchCheck
    \/ \E ok \in BOOLEAN : DispatchTranslate(ok)
    \/ DispatchSleep
    \/ DispatchWeb
    \/ DispatchWaitTick
    \/ \E timed_out \in BOOLEAN : DispatchWebWait(timed_out)
    \/ DispatchPort
    \/ \E timed_out \in BOOLEAN : DispatchPortWait(timed_out)
    \/ \E t \in tasks : BroadcastMessage(t)
    \/ \E t \in tasks, c \in WebIds, ok \in BOOLEAN : ClientSend(t, c, ok)
    \/ \E t \in tasks : BroadcastMessageDone(t)
    \/ \E t \in tasks : BroadcastAudioEnter(t)
    \/ \E t \in tasks, ok \in BOOLEAN : BroadcastAudioTts(t, ok)
    \/ \E t \in tasks, c \in SlaveIds, outcome \in WriteOutcomes :
           BroadcastAudioWrite(t, c, outcome)
    \/ \E t \in tasks, ok \in BOOLEAN : BroadcastAudioDrained(t, ok)
    \/ \E t \in tasks : BroadcastAudioSetChanged(t)
    \/ \E t \in tasks : BroadcastAudioDone(t)
    \/ \E c \in WebIds : WebConnect(c)
    \/ \E i \in Languages, c \in SlaveIds : SlaveConnect(i, c)
    \/ \E i \in Languages, c \in SlaveIds : SlaveDisconnect(i, c)

SpecTimeout == Init /\ [][NextTimeout]_vars /\ DispatcherFairness

\* C13: the dispatcher waits at most 10 s on a broadcast delivery and at
\* most 15 s on a language-channel delivery; whether the delivery completes,
\* raises or never ends, the dispatcher then goes on to the language channel
\* and from there to the next language of the utterance.
C13_DeliveryWaitBounded ==
    /\ [](disp.pc = "web_wait" => disp.waited <= WEB_TIMEOUT)
    /\ [](disp.pc = "port_wait" => disp.waited <= PORT_TIMEOUT)
    /\ [][(disp.pc = "web_wait" /\ disp'.pc # "web_wait")
            => disp' = [disp EXCEPT !.pc = "port", !.waited = 0]]_vars
    /\ [][(disp.pc = "port_wait" /\ disp'.pc # "port_wait")
            => IF disp.lang < NumLangs
                 THEN /\ disp'.pc = "check"
                      /\ disp'.utt = disp.utt
                      /\ disp'.lang = disp.lang + 1
                 ELSE disp' = Idle]_vars
    /\ disp.pc = "web_wait" ~> disp.pc = "port"
    /\ disp.pc = "port_wait" ~> disp.pc \in {"check", "get"}

\* The dispatcher has waited its 15 s on a language-channel delivery that is
\* still in flight, after it gave up waiting on the broadcast delivery of the
\* same language, which is in flight as well.
C13_Witness ==
    /\ disp.pc = "port_wait"
    /\ disp.waited = PORT_TIMEOUT
    /\ Pending("audio")
    /\ Pending("web")

\* ---------------------------------------------------------------------
\* One language channel and its slaves
\* ---------------------------------------------------------------------

Peers == 1..MaxPeers

\* Slaves come to and go from the port of es while utterances are
\* dispatched; there is no viewer, and the dispatcher's waits are not timed.
NextPublish ==
    \/ uttered < MaxTalks /\ NewTalk
    \/ DispatchGet
    \/ DispatchCheck
    \/ DispatchTranslate(TRUE)
    \/ DispatchWeb
    \/ DispatchPort
    \/ DispatchPortWait(FALSE)
    \/ \E t \in tasks : BroadcastAudioEnter(t)
    \/ \E t \in tasks, ok \in BOOLEAN : BroadcastAudioTts(t, ok)
    \/ \E t \in tasks, c \in Peers, outcome \in WriteOutcomes :
           BroadcastAudioWrite(t, c, outcome)
    \/ \E t \in tasks, ok \in BOOLEAN : BroadcastAudioDrained(t, ok)
    \/ \E t \in tasks : BroadcastAudioSetChanged(t)
    \/ \E t \in tasks : BroadcastAudioDone(t)
    \/ \E c \in Peers : SlaveConnect(es, c)
    \/ \E c \in Peers : SlaveDisconnect(es, c)

SpecPublish == Init /\ [][NextPublish]_vars

\* In this step coroutine t ends: it returns or raises.
Finished(t) ==
    /\ t \in tasks
    /\ \A u \in tasks' :
         ~(u.kind = t.kind /\ u.utt = t.utt /\ u.lang = t.lang)

\* C14: when broadcast_audio ends, every subscriber that was in the set when
\* the iteration began and is in it still has been written the payload,
\* whatever connected or disconnected while a drain was awaited.
C14_SetChangeSafe ==
    [][\A t \in tasks :
         (t.kind = "audio" /\ t.pc = "send" /\ Finished(t))
           => (t.members \cap port_clients[t.port]) \subseteq t.seen]_vars

\* C16: when a broadcast_audio in which a write or a drain raised ends,
\* every other subscriber of the set has been written the message, the
\* subscribers whose write raised are no longer in the set, and all the
\* others still are.
C16_WriteFailureIsolated ==
    [][\A t \in tasks :
         (t.kind = "audio" /\ t.pc = "send" /\ Finished(t) /\ t.raised # {})
           => /\ ((t.members \cap port_clients[t.port]) \ t.raised)
                   \subseteq t.seen
              /\ port_clients'[t.port] = port_clients[t.port] \ t.raised]_vars

\* The slaves coroutine t has written the message to without an exception
\* (the message of the one in cur is in its transport's buffer).
Wrote(t) == (t.seen \ t.raised) \cup (IF t.cur = 0 THEN {} ELSE {t.cur})

\* The slaves that coroutine t, which goes on as u, writes to in this step.
Written(t, u) == Wrote(u) \ (t.seen \cup {t.cur})

\* C17: every broadcast_audio runs on the port server of the language its
\* text was translated for, so what a slave of channel L is written carries
\* language_code L and the text translated for L.
C17_LanguageAffinity ==
    /\ [](\A t \in tasks : t.kind = "audio" => t.port = t.lang)
    /\ [][\A t \in tasks, u \in tasks' :
            (t.kind = "audio" /\ u.kind = "audio" /\ u.utt = t.utt
               /\ u.lang = t.lang)
              => Written(t, u) \subseteq port_clients[t.lang]]_vars

\* Utterance t.utt, translated for language 2, is being written to the
\* slaves of channel 2 while channel 1 has a slave of its own.
C17_Witness ==
    \E t \in tasks :
      /\ t.kind = "audio"
      /\ t.lang = fr
      /\ t.pc = "send"
      /\ t.seen # {}
      /\ t.raised = {}
      /\ port_clients[es] # {}

\* C19: no subscriber of a language channel waits for its payload while
\* broadcast_audio is suspended in the drain of another subscriber.
C19_BackpressurePerSubscriber ==
    \A t \in tasks :
      (t.kind = "audio" /\ t.pc = "drain")
        => Unvisited(t) \ {t.cur} = {}

\* ---------------------------------------------------------------------
\* The broadcast channel and its viewers
\* ---------------------------------------------------------------------

Viewers == 1..MaxViewers

\* Viewers come and go while utterances are dispatched and the operator
\* pauses and resumes; there is no slave, and the dispatcher's waits are not
\* timed.
NextWeb ==
    \/ uttered < MaxTalks /\ NewTalk
    \/ TogglePause
    \/ DispatchGet
    \/ DispatchCheck
    \/ DispatchTranslate(TRUE)
    \/ DispatchWeb
    \/ DispatchWebWait(FALSE)
    \/ DispatchPort
    \/ \E t \in tasks : BroadcastMessage(t)
    \/ \E t \in tasks, c \in Viewers, ok \in BOOLEAN : ClientSend(t, c, ok)
    \/ \E t \in tasks : BroadcastMessageDone(t)
    \/ \E c \in Viewers : WebConnect(c)
    \/ \E c \in Viewers : WebDisconnect(c)

SpecWeb == Init /\ [][NextWeb]_vars

\* C15: when broadcast_message returns, a send has been made to every
\* subscriber of the set it was called with, every one of them whose send
\* did not raise has the message, and those whose send raised are no longer
\* in the subscriber set.
C15_SendFailureRemoves ==
    [][\A t \in tasks :
         (t.kind = "web" /\ t.pc = "wait" /\ Finished(t))
           => /\ t.seen = t.members
              /\ t.raised \cap clients' = {}]_vars

\* ---------------------------------------------------------------------
\* Two utterances on one language channel
\* ---------------------------------------------------------------------

\* A slave connects to the port of es and stays; the dispatcher's waits are
\* timed, so a broadcast_audio can outlive the wait on it.
NextOrder ==
    \/ NewTalk
    \/ DispatchGet
    \/ DispatchCheck
    \/ DispatchTranslate(TRUE)
    \/ DispatchWeb
    \/ DispatchPort
    \/ DispatchWaitTick
    \/ \E timed_out \in BOOLEAN : DispatchPortWait(timed_out)
    \/ \E t \in tasks : BroadcastAudioEnter(t)
    \/ \E t \in tasks, ok \in BOOLEAN : BroadcastAudioTts(t, ok)
    \/ \E t \in tasks, c \in SlaveIds, outcome \in WriteOutcomes :
           BroadcastAudioWrite(t, c, outcome)
    \/ \E t \in tasks, ok \in BOOLEAN : BroadcastAudioDrained(t, ok)
    \/ \E t \in tasks : BroadcastAudioDone(t)
    \/ \E c \in SlaveIds : SlaveConnect(es, c)

SpecOrder == Init /\ [][NextOrder]_vars

\* C18: on a language channel the coroutine of an utterance never writes to
\* a slave that the coroutine of a later utterance has already written to.
C18_ChannelFifo ==
    [][\A t1 \in tasks, t2 \in tasks, u \in tasks' :
         (/\ t1.kind = "audio" /\ t2.kind = "audio" /\ u.kind = "audio"
          /\ t1.port = t2.port
          /\ t1.utt < t2.utt
          /\ u.utt = t1.utt /\ u.lang = t1.lang)
           => Written(t1, u) \cap Wrote(t2) = {}]_vars

\* ---------------------------------------------------------------------
\* The framed messages of a language channel: broadcast_audio frames them,
\* the slave's receive_message decodes them.  Characters are code points,
\* strings are sequences of them, bytes are 0..255.
\* ---------------------------------------------------------------------

\* the concatenation of a sequence of sequences, by halves
RECURSIVE Flatten(_)
Flatten(ss) ==
    IF ss = <<>> THEN <<>>
    ELSE IF Len(ss) = 1 THEN ss[1]
    ELSE Flatten(SubSeq(ss, 1, Len(ss) \div 2))
           \o Flatten(SubSeq(ss, Len(ss) \div 2 + 1, Len(ss)))

\* the escape \uXXXX of a 16-bit code unit ('\\u{0:04x}')
EscapeUnit(n) ==
    LET Hex(d) == IF d < 10 THEN 48 + d ELSE 87 + d
    IN  <<92, 117, Hex(n \div 4096), Hex((n \div 256) % 16),
          Hex((n \div 16) % 16), Hex(n % 16)>>

\* A variant that escapes nothing: C20 does not hold of it.
RawChar(c) == <<c>>

\* json.dumps (ensure_ascii is true) of one character of a string: quote and
\* backslash get a backslash, newline is \n, anything else outside ' '..'~'
\* is \uXXXX, as a surrogate pair above the basic plane
EscapeChar(c) ==
    IF c = 34 \/ c = 92 THEN <<92, c>>
    ELSE IF c = 10 THEN <<92, 110>>
    ELSE IF c >= 32 /\ c <= 126 THEN <<c>>
    ELSE IF c < 65536 THEN EscapeUnit(c)
    ELSE EscapeUnit(55296 + ((c - 65536) \div 1024))
           \o EscapeUnit(56320 + ((c - 65536) % 1024))

JsonString(s) ==
    <<34>> \o Flatten([k \in 1..Len(s) |-> EscapeChar(s[k])]) \o <<34>>

\* json.dumps of a dict of strings, given as its items in insertion order:
\* {"key": "value", "key": "value"}
JsonDumps(m) ==
    <<123>>
      \o Flatten([k \in 1..Len(m) |->
                    (IF k = 1 THEN <<>> ELSE <<44, 32>>)
                      \o JsonString(m[k][1]) \o <<58, 32>>
                      \o JsonString(m[k][2])])
      \o <<125>>

\* str.encode('utf-8') of one character
Utf8Char(c) ==
    IF c < 128 THEN <<c>>
    ELSE IF c < 2048 THEN <<192 + (c \div 64), 128 + (c % 64)>>
    ELSE IF c < 65536
      THEN <<224 + (c \div 4096), 128 + ((c \div 64) % 64), 128 + (c % 64)>>
    ELSE <<240 + (c \div 262144), 128 + ((c \div 4096) % 64),
           128 + ((c \div 64) % 64), 128 + (c % 64)>>

Utf8Encode(s) == Flatten([k \in 1..Len(s) |-> Utf8Char(s[k])])

\* len(json_data).to_bytes(4, byteorder='big'), for a length below 2^32
ToBytes(n) ==
    <<(n \div 16777216) % 256, (n \div 65536) % 256, (n \div 256) % 256,
      n % 256>>

\* to_bytes(4, ...) raises OverflowError for a length of 2^32 or more
Fits(n) == n \div 65536 < 65536

\* int.from_bytes(length_bytes, byteorder='big')
FromBytes(b) == ((b[1] * 256 + b[2]) * 256 + b[3]) * 256 + b[4]

\* the keys of the message dict and its "audio"
TYPE == <<116, 121, 112, 101>>
AUDIO == <<97, 117, 100, 105, 111>>
LANGUAGE_CODE ==
    <<108, 97, 110, 103, 117, 97, 103, 101, 95, 99, 111, 100, 101>>
TEXT == <<116, 101, 120, 116>>
AUDIO_DATA == <<97, 117, 100, 105, 111, 95, 100, 97, 116, 97>>

\* self.lang_code of the port server of language i: "es", "fr"
LangCode(i) == IF i = es THEN <<101, 115>> ELSE <<102, 114>>

\* the message dict of broadcast_audio, as its items
Message(code, text, audio_data) ==
    << <<TYPE, AUDIO>>, <<LANGUAGE_CODE, code>>, <<TEXT, text>>,
       <<AUDIO_DATA, audio_data>> >>

\* full_message = length_prefix + json_data
FullMessage(m) ==
    LET json_data == Utf8Encode(JsonDumps(m))
    IN  ToBytes(Len(json_data)) \o json_data

\* ---- the decoder.  A result is [ok, val, next]; ok is false where Python
\* raises.
Bad == [ok |-> FALSE, val |-> <<>>, next |-> 0]

Good(v, i) == [ok |-> TRUE, val |-> v, next |-> i]

Continuation(b) == b >= 128 /\ b < 192

\* The character that begins at b[1], with the number of bytes it takes:
\* strict UTF-8, no overlong forms, no surrogates.  next is 0 and ok false
\* where the bytes are not the encoding of a character.
FirstChar(b) ==
    IF b[1] < 128 THEN Good(b[1], 1)
    ELSE IF b[1] >= 194 /\ b[1] < 224 /\ Len(b) >= 2 /\ Continuation(b[2])
      THEN Good((b[1] - 192) * 64 + (b[2] - 128), 2)
    ELSE IF b[1] >= 224 /\ b[1] < 240 /\ Len(b) >= 3
            /\ Continuation(b[2]) /\ Continuation(b[3])
      THEN LET c == ((b[1] - 224) * 64 + (b[2] - 128)) * 64 + (b[3] - 128)
           IN  IF c < 2048 \/ (c >= 55296 /\ c < 57344) THEN Bad
                                                          ELSE Good(c, 3)
    ELSE IF b[1] >= 240 /\ b[1] < 245 /\ Len(b) >= 4
            /\ Continuation(b[2]) /\ Continuation(b[3]) /\ Continuation(b[4])
      THEN LET c == (((b[1] - 240) * 64 + (b[2] - 128)) * 64
                       + (b[3] - 128)) * 64 + (b[4] - 128)
           IN  IF c < 65536 \/ c > 1114111 THEN Bad ELSE Good(c, 4)
    ELSE Bad

\* Where the second half of b is decoded from: the first byte from the
\* middle on that is not a continuation byte (a character begins there if
\* any character does).
Cut(b) ==
    LET mid == Len(b) \div 2 + 1
    IN  IF ~Continuation(b[mid]) \/ mid + 1 > Len(b) THEN mid
        ELSE IF ~Continuation(b[mid + 1]) \/ mid + 2 > Len(b) THEN mid + 1
        ELSE IF ~Continuation(b[mid + 2]) \/ mid + 3 > Len(b) THEN mid + 2
        ELSE mid + 3

\* bytes.decode('utf-8').  A long sequence is decoded by halves, cut where a
\* character begins; next is not used.
RECURSIVE Utf8Decode(_)
Utf8Decode(b) ==
    IF b = <<>> THEN Good(<<>>, 0)
    ELSE IF Len(b) <= 4
      THEN LET first == FirstChar(b)
               rest == Utf8Decode(SubSeq(b, first.next + 1, Len(b)))
           IN  IF first.ok /\ rest.ok
                 THEN Good(<<first.val>> \o rest.val, 0) ELSE Bad
    ELSE LET front == Utf8Decode(SubSeq(b, 1, Cut(b) - 1))
             back == Utf8Decode(SubSeq(b, Cut(b), Len(b)))
         IN  IF front.ok /\ back.ok THEN Good(front.val \o back.val, 0)
                                    ELSE Bad

\* the 16-bit unit of the escape whose four hexadecimal digits begin at
\* s[i], or -1
Unit(s, i) ==
    LET Digit(h) ==
          IF h >= 48 /\ h <= 57 THEN h - 48
          ELSE IF h >= 97 /\ h <= 102 THEN h - 87
          ELSE IF h >= 65 /\ h <= 70 THEN h - 55
          ELSE -1
    IN  IF i + 3 > Len(s) THEN -1
        ELSE IF \E k \in 0..3 : Digit(s[i + k]) < 0 THEN -1
        ELSE ((Digit(s[i]) * 16 + Digit(s[i + 1])) * 16 + Digit(s[i + 2]))
               * 16 + Digit(s[i + 3])

\* json.loads of a string, from the character after its opening quote
RECURSIVE ScanString(_, _, _)
ScanString(s, i, acc) ==
    IF i > Len(s) THEN Bad
    ELSE IF s[i] = 34 THEN Good(acc, i + 1)
    ELSE IF s[i] < 32 THEN Bad
    ELSE IF s[i] # 92 THEN ScanString(s, i + 1, Append(acc, s[i]))
    ELSE IF i + 1 > Len(s) THEN Bad
    ELSE IF s[i + 1] \in {34, 92, 47}
      THEN ScanString(s, i + 2, Append(acc, s[i + 1]))
    ELSE IF s[i + 1] = 110 THEN ScanString(s, i + 2, Append(acc, 10))
    ELSE IF s[i + 1] # 117 THEN Bad
    ELSE LET u == Unit(s, i + 2)
             v == IF i + 7 <= Len(s) /\ s[i + 6] = 92 /\ s[i + 7] = 117
                    THEN Unit(s, i + 8) ELSE -1
         IN  IF u < 0 THEN Bad
             ELSE IF u >= 55296 /\ u < 56320 /\ v >= 56320 /\ v < 57344
               THEN ScanString(s, i + 12,
                      Append(acc, 65536 + (u - 55296) * 1024 + (v - 56320)))
             ELSE ScanString(s, i + 6, Append(acc, u))

\* json.loads skips blanks between tokens
RECURSIVE SkipBlank(_, _)
SkipBlank(s, i) ==
    IF i <= Len(s) /\ s[i] \in {32, 10, 13, 9} THEN SkipBlank(s, i + 1)
                                                ELSE i

\* the token c is at s[i]
At(s, i, c) == i <= Len(s) /\ s[i] = c

\* json.loads of the items of an object whose values are strings, from the
\* token after its '{' or after a ','
RECURSIVE ScanItems(_, _, _)
ScanItems(s, i, acc) ==
    IF ~At(s, i, 34) THEN Bad
    ELSE LET key == ScanString(s, i + 1, <<>>)
             colon == SkipBlank(s, key.next)
             quote == SkipBlank(s, colon + 1)
             value == ScanString(s, quote + 1, <<>>)
             after == SkipBlank(s, value.next)
             items == Append(acc, <<key.val, value.val>>)
         IN  IF ~key.ok \/ ~At(s, colon, 58) \/ ~At(s, quote, 34)
                \/ ~value.ok
               THEN Bad
             ELSE IF At(s, after, 125)
               THEN IF SkipBlank(s, after + 1) > Len(s)
                      THEN Good(items, after + 1) ELSE Bad
             ELSE IF At(s, after, 44)
               THEN ScanItems(s, SkipBlank(s, after + 1), items)
             ELSE Bad

\* json.loads(message_str)
JsonLoads(s) ==
    LET open == SkipBlank(s, 1)
    IN  IF At(s, open, 123) THEN ScanItems(s, SkipBlank(s, open + 1), <<>>)
                            ELSE Bad

\* What receive_message returns for the bytes of one frame's body: the
\* message, or None (here <<>>) after an exception
Received(body) ==
    LET message_str == Utf8Decode(body)
        message == IF message_str.ok THEN JsonLoads(message_str.val) ELSE Bad
    IN  IF message.ok THEN message.val ELSE <<>>

\* broadcast_audio frames the next message and writes it to the slave
WriteFrame ==
    /\ framed < Len(payloads)
    /\ Fits(Len(Utf8Encode(JsonDumps(payloads[framed + 1]))))
    /\ stream' = stream \o FullMessage(payloads[framed + 1])
    /\ framed' = framed + 1
    /\ UNCHANGED <<payloads, decoded>>
    /\ UNCHANGED <<sessVars, fanVars, otherVars>>

\* receive_message: readexactly(4), readexactly(message_length), decode,
\* json.loads.  readexactly returns once that many bytes have arrived.
ReceiveMessage ==
    /\ Len(stream) >= 4
    /\ LET message_length == FromBytes(SubSeq(stream, 1, 4))
       IN  /\ Len(stream) >= 4 + message_length
           /\ decoded' = Append(decoded,
                                Received(SubSeq(stream, 5, 4 + message_length)))
           /\ stream' = SubSeq(stream, 5 + message_length, Len(stream))
    /\ UNCHANGED <<payloads, framed>>
    /\ UNCHANGED <<sessVars, fanVars, otherVars>>

\* The texts and audio strings the messages are drawn from: the letter n, a
\* quote, a backslash, a newline, a two-byte and a three-byte character, one
\* above the basic plane; the base64 characters 'A', '/' and '='.
TextChars == {110, 34, 92, 10, 233, 8364, 128512}
Base64Chars == {65, 47, 61}

RECURSIVE Strings(_, _)
Strings(chars, n) ==
    IF n = 0 THEN {<<>>}
    ELSE LET shorter == Strings(chars, n - 1)
         IN  shorter \cup {Append(s, c) : s \in shorter, c \in chars}

Messages ==
    {Message(LangCode(es), text, audio_data) :
       text \in Strings(TextChars, MaxText),
       audio_data \in Strings(Base64Chars, MaxAudio) \ {<<>>}}

\* One slave on a language channel; the messages to come are drawn first.
InitFrame ==
    /\ is_paused = TRUE
    /\ stop_event = FALSE
    /\ audio_queue = <<>>
    /\ translation_queue = <<>>
    /\ session = 0
    /\ tpc = "loop"
    /\ gen = [s \in Sessions |-> NoGen]
    /\ since_start = 0
    /\ since_audio = 0
    /\ since_response = 0
    /\ restarts = 0
    /\ paused_all = TRUE
    /\ audio_is_real = FALSE
    /\ frame_seq = 0
    /\ last_exit = "none"
    /\ clients = {}
    /\ port_clients = [i \in Languages |-> IF i = es THEN {1} ELSE {}]
    /\ disp = Idle
    /\ tasks = {}
    /\ uttered = 0
    /\ payloads \in {<<m>> : m \in Messages}
                      \cup {<<m, n>> : m \in Messages, n \in Messages}
    /\ framed = 0
    /\ stream = <<>>
    /\ decoded = <<>>
    /\ InitOther

NextFrame ==
    \/ WriteFrame
    \/ ReceiveMessage

SpecFrame == InitFrame /\ [][NextFrame]_vars

\* C20: what receive_message returns is, one for one and in the same order,
\* the messages that were framed, and every framed message that has not been
\* returned yet is complete in the stream for the next receive_message.
C20_FramingRoundTrip ==
    /\ Len(decoded) <= framed
    /\ \A k \in 1..Len(decoded) : decoded[k] = payloads[k]
    /\ Len(decoded) < framed
         => /\ Len(stream) >= 4
            /\ Len(stream) >= 4 + FromBytes(SubSeq(stream, 1, 4))
    /\ Len(decoded) = framed => stream = <<>>

\* Two frames were written back to back and both have been decoded; the
\* first text has a character above the basic plane and the second a quote.
C20_Witness ==
    /\ Len(payloads) = 2
    /\ Len(decoded) = 2
    /\ payloads[1][3] = <<TEXT, <<128512, 233>> >>
    /\ payloads[2][3] = <<TEXT, <<92, 34>> >>
    /\ decoded = payloads

\* ---------------------------------------------------------------------
\* The life of a subscriber: accepted, broken, removed
\* ---------------------------------------------------------------------

\* The peer of connection c of channel i closes it, or the connection is
\* reset.  The event loop notes it and wakes the connection's handler.
PeerCloses(i, c) ==
    /\ c \in (IF i = 0 THEN clients ELSE port_clients[i]) \ lost[i]
    /\ ~Running
    /\ lost' = [lost EXCEPT ![i] = @ \cup {c}]
    /\ UNCHANGED <<sessVars, fanVars, frameVars>>
    /\ UNCHANGED <<curr_lang, sess_lang, produced, orig_code, cooled, slave,
                   last_error, main_pc>>

\* One utterance goes to the viewers and to the slaves of es while
\* connections are accepted and break; a handler ends once its connection
\* is broken.
NextLifecycle ==
    \/ uttered < MaxTalks /\ NewTalk
    \/ DispatchGet
    \/ DispatchCheck
    \/ DispatchTranslate(TRUE)
    \/ DispatchWeb
    \/ DispatchWebWait(FALSE)
    \/ DispatchPort
    \/ DispatchPortWait(FALSE)
    \/ \E t \in tasks : BroadcastMessage(t)
    \/ \E t \in tasks, c \in WebIds, ok \in BOOLEAN : ClientSend(t, c, ok)
    \/ \E t \in tasks : BroadcastMessageDone(t)
    \/ \E t \in tasks : BroadcastAudioEnter(t)
    \/ \E t \in tasks, ok \in BOOLEAN : BroadcastAudioTts(t, ok)
    \/ \E t \in tasks, c \in Peers, outcome \in WriteOutcomes :
           BroadcastAudioWrite(t, c, outcome)
    \/ \E t \in tasks, ok \in BOOLEAN : BroadcastAudioDrained(t, ok)
    \/ \E t \in tasks : BroadcastAudioSetChanged(t)
    \/ \E t \in tasks : BroadcastAudioDone(t)
    \/ \E c \in WebIds : WebConnect(c)
    \/ \E c \in Peers : SlaveConnect(es, c)
    \/ \E c \in WebIds : PeerCloses(0, c)
    \/ \E c \in Peers : PeerCloses(es, c)
    \/ \E c \in lost[0] : WebDisconnect(c)
    \/ \E c \in lost[es] : SlaveDisconnect(es, c)

\* The event loop runs what is ready: a coroutine that holds the loop goes
\* on to its next await, and the handler of a broken connection is resumed.
SpecLifecycle ==
    /\ Init
    /\ [][NextLifecycle]_vars
    /\ WF_vars(\E t \in tasks, c \in Peers, outcome \in WriteOutcomes :
                  BroadcastAudioWrite(t, c, outcome))
    /\ WF_vars(\E t \in tasks : BroadcastAudioSetChanged(t))
    /\ WF_vars(\E t \in tasks : BroadcastAudioDone(t))
    /\ \A c \in WebIds : WF_vars(c \in lost[0] /\ WebDisconnect(c))
    /\ \A c \in Peers : WF_vars(c \in lost[es] /\ SlaveDisconnect(es, c))

\* C21: an accepted connection is in its channel's subscriber set; a
\* connection that broke (its peer closed, or a write to it raised) is
\* later out of the set with its transport closed; and no payload goes to a
\* connection that is broken or out of the set.
C21_SubscriberLifecycle ==
    /\ [][/\ \A c \in Peers : SlaveConnect(es, c) => c \in port_clients'[es]
          /\ \A c \in WebIds : WebConnect(c) => c \in clients']_vars
    /\ \A c \in Peers :
         (c \in lost[es]) ~> (c \notin port_clients[es] \cup lost[es])
    /\ \A c \in WebIds : (c \in lost[0]) ~> (c \notin clients \cup lost[0])
    /\ [][/\ \A t \in tasks, u \in tasks' :
               (t.kind = "audio" /\ u.kind = "audio" /\ u.utt = t.utt
                  /\ u.lang = t.lang)
                 => Written(t, u) \subseteq
                      port_clients[t.port] \ lost[t.port]
          /\ \A t \in tasks, c \in WebIds :
               WebDelivered(t, c) => c \in clients \ lost[0]]_vars

\* A write to a slave raised, broadcast_audio went on to another slave and
\* waits in its drain, and meanwhile the handler of the first slave has
\* ended: the slave is out of the set and its transport is closed.
C21_Witness ==
    \E t \in tasks :
      /\ t.kind = "audio"
      /\ t.pc = "drain"
      /\ t.raised # {}
      /\ t.raised \cap (port_clients[t.port] \cup lost[t.port]) = {}

\* C22: when the number of viewers goes from 0 to 1 is_paused is false
\* afterwards, and when it goes from 1 to 0 is_paused is true afterwards,
\* whatever the flag was before and whatever the operator commanded.
C22_AutoResumeAutoPause ==
    [][/\ (clients = {} /\ Cardinality(clients') = 1) => ~is_paused'
       /\ (Cardinality(clients) = 1 /\ clients' = {}) => is_paused']_vars

\* The operator has paused by hand while the only viewer is connected, and
\* an utterance is on its way to that viewer.
C22_Witness ==
    /\ Cardinality(clients) = 1
    /\ is_paused
    /\ \E t \in tasks : t.kind = "web" /\ t.pc = "wait"

\* ---------------------------------------------------------------------
\* From the recognition session to the dispatcher
\* ---------------------------------------------------------------------

\* Sessions receive responses and fail, the dispatcher works through the
\* finalized-text queue for the viewers of the broadcast channel, and the
\* operator may quit.  No audio is captured and the clock stands still.
NextPipeline ==
    \/ StartSession
    \/ \E s \in Sessions : GenConfig(s)
    \/ \E s \in Sessions : GenHead(s)
    \/ \E s \in Sessions : GenEmpty(s)
    \/ (tpc = "cooldown" /\ Tick)
    \/ \E r \in ResponseKinds : Response(r)
    \/ CallEnds
    \/ \E e \in BOOLEAN : CallException(e)
    \/ Cooldown
    \/ LoopExit
    \/ Quit
    \/ \E c \in WebIds : WebConnect(c)
    \/ DispatchGet
    \/ DispatchExit
    \/ DispatchCheck
    \/ \E ok \in BOOLEAN : DispatchTranslate(ok)
    \/ DispatchSleep
    \/ DispatchWeb
    \/ DispatchWebWait(FALSE)
    \/ DispatchPort
    \/ \E t \in tasks : BroadcastMessage(t)
    \/ \E t \in tasks, c \in WebIds, ok \in BOOLEAN : ClientSend(t, c, ok)
    \/ \E t \in tasks : BroadcastMessageDone(t)

\* The dispatcher thread, the session thread and the event loop keep
\* running, a call of the translation service returns or raises, and the
\* sleep after an error ends.
SpecPipeline ==
    /\ Init
    /\ [][NextPipeline]_vars
    /\ \A s \in Sessions :
          WF_vars(GenConfig(s) \/ GenHead(s) \/ GenEmpty(s))
    /\ WF_vars(StartSession)
    /\ WF_vars(Cooldown)
    /\ WF_vars(tpc = "cooldown" /\ Tick)
    /\ WF_vars(\/ DispatchGet
               \/ DispatchCheck
               \/ \E ok \in BOOLEAN : DispatchTranslate(ok)
               \/ DispatchSleep
               \/ DispatchWeb
               \/ DispatchWebWait(FALSE)
               \/ DispatchPort
               \/ \E t \in tasks : BroadcastMessage(t)
               \/ \E t \in tasks, c \in WebIds, ok \in BOOLEAN :
                      ClientSend(t, c, ok)
               \/ \E t \in tasks : BroadcastMessageDone(t))

\* C23: a final transcript with text is put on translation_queue once, as
\* one new item at the tail; the queue changes otherwise only when
\* translate_loop takes its head, which becomes the utterance it dispatches;
\* the dispatcher takes up an utterance in no other way; and the utterance
\* at the head is taken up unless stop is set.
C23_HandedOverOnce ==
    /\ [][/\ uttered' # uttered
               => /\ uttered' = uttered + 1
                  /\ translation_queue' = Append(translation_queue, uttered')
          /\ (translation_queue' # translation_queue /\ uttered' = uttered)
               => /\ disp.pc = "get"
                  /\ translation_queue' = Tail(translation_queue)
                  /\ disp'.utt = Head(translation_queue)
          /\ (disp'.utt # disp.utt /\ disp'.utt # 0)
               => /\ translation_queue # <<>>
                  /\ disp'.utt = Head(translation_queue)
                  /\ translation_queue' = Tail(translation_queue)]_vars
    /\ [](\A k \in 1..Len(translation_queue) :
            translation_queue[k] = uttered - Len(translation_queue) + k)
    /\ \A u \in Utterances :
         (translation_queue # <<>> /\ Head(translation_queue) = u)
           ~> (disp.utt = u \/ stop_event)

\* Two transcripts of one session were put on the queue before the
\* dispatcher took the first; it has dispatched the first and is at work on
\* the second.
C23_Witness ==
    /\ session = 1
    /\ uttered = 2
    /\ translation_queue = <<>>
    /\ disp.utt = 2
    /\ disp.pc = "web_wait"

\* ---------------------------------------------------------------------
\* The source language of a translation: the operator switches the
\* language while sessions produce transcripts and the dispatcher takes
\* them up.

NextLanguage ==
    \/ StartSession
    \/ \E s \in Sessions : GenConfig(s)
    \/ \E s \in Sessions : GenHead(s)
    \/ \E s \in Sessions : GenGet(s)
    \/ Response("final_text")
    \/ CallEnds
    \/ \E l \in 0..NumLangs : SwitchLanguage(l)
    \/ \E c \in WebIds : WebConnect(c)
    \/ DispatchEmpty
    \/ DispatchGet
    \/ DispatchCheck
    \/ DispatchTranslate(TRUE)
    \/ DispatchWeb
    \/ DispatchWebWait(FALSE)
    \/ DispatchPort
    \/ \E t \in tasks : BroadcastMessage(t)
    \/ \E t \in tasks, c \in WebIds : ClientSend(t, c, TRUE)
    \/ \E t \in tasks : BroadcastMessageDone(t)

\* The session thread and the library's request thread keep running, and a
\* call whose request stream has ended completes.
SpecLanguage ==
    /\ Init
    /\ [][NextLanguage]_vars
    /\ \A s \in Sessions : WF_vars(GenConfig(s) \/ GenHead(s) \/ GenGet(s))
    /\ WF_vars(StartSession)
    /\ WF_vars(CallEnds)

\* C24: when translate_loop calls synchronous_translate for an utterance,
\* the source language it passes is the language of the session that
\* produced the utterance.
C24_SourceLanguage ==
    [][(disp.pc = "translate" /\ disp'.pc # "translate")
         => orig_code = produced[disp.utt]]_vars


\* C25: a frame leaves audio_queue only in the audio_queue.get of a request
\* generator, which then holds it: whenever the queue loses frames it loses
\* its head alone, to a generator that was waiting in get.
C25_FramesConsumedByGenerator ==
    [][LET AudioIn(q) == Cardinality({k \in DOMAIN q : q[k].kind = "audio"})
       IN  AudioIn(audio_queue') < AudioIn(audio_queue)
             => /\ AudioIn(audio_queue') = AudioIn(audio_queue) - 1
                /\ \E s \in Sessions : /\ gen[s].pc = "get"
                                       /\ gen'[s].chunk = Head(audio_queue)]_vars

\* C26: transcribe_loop ends at its loop head with stop set and nowhere
\* else, so never by an exception of the streaming call; the session after
\* an expected closure starts with no sleep, the session after any other
\* error starts when the sleep has lasted COOLDOWN; no time passes at the
\* loop head before a restart; and after an exception a new session does
\* start unless stop is set (or the sessions of the model are used up).
C26_FailureHandling ==
    /\ [][/\ (tpc' = "exit" /\ tpc # "exit") => (tpc = "loop" /\ stop_event)
          /\ session' # session
               => /\ ~stop_event
                  /\ last_error = "expected" => cooled = 0
                  /\ last_error = "other" => cooled = COOLDOWN
          /\ (tpc = "loop" /\ tpc' = "loop" /\ ~stop_event
                /\ session < MaxSessions)
               => since_start' = since_start]_vars
    /\ [](cooled <= COOLDOWN)
    /\ (last_error # "none")
         ~> (last_error = "none" \/ stop_event \/ session = MaxSessions)

\* The streaming call of session 1 raised an unexpected error, the sleep is
\* over and the loop is about to start session 2.
C26_Witness ==
    /\ tpc = "loop"
    /\ last_error = "other"
    /\ cooled = COOLDOWN
    /\ ~stop_event
    /\ session = 1

\* C27: transcribe_loop and translate_loop return only when stop is set;
\* after an exception of the streaming call the session loop is back in a
\* stream, and after an exception while dispatching the dispatcher takes
\* up the utterance that waits at the head of the queue (unless stop is
\* set, or the sessions of the model are used up).
C27_LoopsSurviveErrors ==
    /\ [][/\ (tpc' = "exit" /\ tpc # "exit") => stop_event
          /\ (disp'.pc = "exit" /\ disp.pc # "exit") => stop_event]_vars
    /\ (last_error # "none")
         ~> (tpc = "recv" \/ stop_event \/ session = MaxSessions)
    /\ \A u \in Utterances :
         (disp.pc = "sleep" /\ translation_queue # <<>>
            /\ Head(translation_queue) = u)
           ~> (disp.utt = u \/ stop_event)

\* Both loops are in the sleep that follows an error: the translation of
\* utterance 1 raised while utterance 2 waits, and the streaming call
\* raised an unexpected error.
C27_Witness ==
    /\ disp.pc = "sleep"
    /\ translation_queue = <<2>>
    /\ tpc = "cooldown"
    /\ last_error = "other"
    /\ ~stop_event

\* C28: once stop is set no session is started, and translate_loop enters
\* no further blocking call (a translation, a wait for a broadcast, the
\* sleep after an error): it ends after the call it is in.
C28_StopHonoured ==
    [][stop_event
         => /\ session' = session
            /\ disp'.pc \in {"translate", "web_wait", "port_wait", "sleep"}
                 => disp'.pc = disp.pc]_vars

\* ---------------------------------------------------------------------
\* slave.py: SlaveClient.connect_and_listen.  Positions of the client:
\* "head" (test of the outer while self.running), "except_sleep" (the sleep
\* in an except clause), "receive" (in receive_message), "play" (in
\* process_message, waiting for play_audio), "close" (the finally clause),
\* "final_sleep" (the sleep at the end of the finally clause), "exit" (the
\* loop has ended), "crashed" (an exception has left connect_and_listen).
\* link is the connection as the client's transport sees it: "none", "up",
\* "eof" (closed by the master) or "reset" (lost with an error).  delays
\* counts the sleeps since the connection ended or failed.
\* ---------------------------------------------------------------------

SlaveStep(s) ==
    /\ slave' = s
    /\ UNCHANGED <<sessVars, fanVars, frameVars>>
    /\ UNCHANGED <<lost, curr_lang, sess_lang, produced, orig_code, cooled,
                   last_error, main_pc>>

\* while self.running: ... await asyncio.open_connection(host, port), which
\* returns, raises ConnectionRefusedError or raises another exception
OpenConnection(outcome) ==
    /\ slave.pc = "head"
    /\ slave.running
    /\ slave.attempts < MaxAttempts
    /\ SlaveStep(IF outcome = "connected"
                   THEN [slave EXCEPT !.pc = "receive", !.link = "up",
                                      !.writer = TRUE, !.attempts = @ + 1]
                   ELSE [slave EXCEPT !.pc = "except_sleep", !.delays = 0,
                                      !.attempts = @ + 1])

\* while self.running is false: connect_and_listen returns
SlaveExit ==
    /\ slave.pc = "head"
    /\ ~slave.running
    /\ SlaveStep([slave EXCEPT !.pc = "exit"])

\* the master's broadcast_audio writes a frame to this client
MasterSends ==
    /\ slave.link = "up"
    /\ slave.sent < MaxMsgs
    /\ SlaveStep([slave EXCEPT !.sent = @ + 1,
                               !.inbox = Append(@, slave.sent + 1)])

\* the connection ends from the master's side: closed, or lost with an error
MasterCloses(how) ==
    /\ slave.link = "up"
    /\ SlaveStep([slave EXCEPT !.link = how])

\* A variant that reads the next frame while the last payload still plays:
\* C30 does not hold of it.
SlaveReceiveDetached ==
    /\ slave.pc \in {"receive", "play"}
    /\ slave.inbox # <<>>
    /\ SlaveStep([slave EXCEPT !.pc = "play", !.inbox = Tail(@),
                               !.playing = @ \cup {Head(slave.inbox)}])

\* message = await self.receive_message(): a frame, which goes to
\* process_message and from there to play_audio in the executor, or None
\* when the connection has ended, which breaks the inner loop
SlaveReceive ==
    /\ slave.pc = "receive"
    /\ IF slave.inbox # <<>>
         THEN SlaveStep([slave EXCEPT !.pc = "play", !.inbox = Tail(@),
                                      !.playing = @ \cup {Head(slave.inbox)}])
         ELSE /\ slave.link \in {"eof", "reset"}
              /\ SlaveStep([slave EXCEPT !.pc = "close", !.delays = 0])

\* play_audio returns (playback is over, or it failed and the error was
\* printed); process_message returns, and the inner while tests self.running
PlayAudio ==
    /\ slave.pc = "play"
    /\ \E m \in slave.playing :
         LET rest == slave.playing \ {m} IN
         SlaveStep([slave EXCEPT
                      !.playing = rest,
                      !.played = Append(@, m),
                      !.pc = IF rest # {} THEN "play"
                             ELSE IF slave.running THEN "receive"
                             ELSE "close"])

\* await asyncio.sleep(retry_delay) in an except clause
ExceptSleep ==
    /\ slave.pc = "except_sleep"
    /\ SlaveStep([slave EXCEPT !.pc = "close", !.delays = @ + 1])

\* finally: if self.writer: self.writer.close(); await
\* self.writer.wait_closed(); ...  wait_closed raises the error the
\* connection was lost with, and the exception leaves connect_and_listen;
\* otherwise the writer is forgotten and the test of self.running follows.
Finally(raises) ==
    /\ slave.pc = "close"
    /\ raises => (slave.writer /\ slave.link = "reset")
    /\ SlaveStep(IF raises
                   THEN [slave EXCEPT !.pc = "crashed"]
                   ELSE [slave EXCEPT
                           !.writer = FALSE, !.link = "none", !.inbox = <<>>,
                           !.pc = IF slave.running THEN "final_sleep"
                                                   ELSE "head"])

\* if self.running: await asyncio.sleep(retry_delay)
FinalSleep ==
    /\ slave.pc = "final_sleep"
    /\ SlaveStep([slave EXCEPT !.pc = "head", !.delays = @ + 1])

\* stop(): self.running = False
SlaveStop ==
    /\ slave.running
    /\ slave.pc \notin {"exit", "crashed"}
    /\ SlaveStep([slave EXCEPT !.running = FALSE])

NextSlave ==
    \/ \E outcome \in {"connected", "refused", "error"} :
           OpenConnection(outcome)
    \/ SlaveExit
    \/ MasterSends
    \/ \E how \in {"eof", "reset"} : MasterCloses(how)
    \/ SlaveReceive
    \/ PlayAudio
    \/ ExceptSleep
    \/ \E raises \in BOOLEAN : Finally(raises)
    \/ FinalSleep
    \/ SlaveStop

SpecSlave == Init /\ [][NextSlave]_vars

\* C29: while the client is running it neither returns from
\* connect_and_listen nor is thrown out of it, every connection attempt
\* after the first follows a sleep, and no attempt is made once running is
\* false.
C29_Reconnect ==
    /\ [](slave.running => slave.pc \notin {"exit", "crashed"})
    /\ [][slave'.attempts # slave.attempts
            => /\ slave.running
               /\ slave.attempts > 0 => slave.delays >= 1]_vars

\* C30: the client takes a frame from its connection only when no payload
\* is playing, at most one payload plays at a time, and the payloads are
\* played in the order they were sent and received.
C30_SerialPlayback ==
    /\ [][Len(slave'.inbox) < Len(slave.inbox) => slave.playing = {}]_vars
    /\ [](Cardinality(slave.playing) <= 1)
    /\ [](\A j, k \in DOMAIN slave.played :
            j < k => slave.played[j] < slave.played[k])

\* Payload 1 is playing while the frame of payload 2 waits on the
\* connection.
C30_Witness ==
    /\ slave.pc = "play"
    /\ slave.playing = {1}
    /\ slave.inbox = <<2>>

\* ---------------------------------------------------------------------
\* What a response does, by its content.  A response has zero or one
\* result; the result is interim or final and has zero or one alternative
\* with a transcript of spaces, newlines and letters.
\* ---------------------------------------------------------------------

Responses ==
    {[results |-> n, is_final |-> f, alternatives |-> a, transcript |-> s] :
       n \in 0..1, f \in BOOLEAN, a \in 0..1,
       s \in Strings({32, 10, 97}, MaxText)}

\* A variant that tests the transcript as received: C31 does not hold of it.
ResponseKindUnstripped(resp) ==
    IF resp.results = 0 THEN "no_results"
    ELSE IF ~resp.is_final THEN "interim"
    ELSE IF resp.alternatives = 0 \/ resp.transcript = <<>>
           THEN "final_blank"
    ELSE "final_text"

\* The tests of the loop body in their order: not response.results,
\* result.is_final, not result.alternatives, and not original_text for
\* original_text = transcript.strip(), which cuts the whitespace at both ends.
ResponseKind(resp) ==
    LET s == resp.transcript
        inked == {k \in DOMAIN s : s[k] \notin {32, 10}}
        original_text ==
            IF inked = {} THEN <<>>
            ELSE SubSeq(s, CHOOSE k \in inked : \A j \in inked : k <= j,
                           CHOOSE k \in inked : \A j \in inked : k >= j)
    IN  IF resp.results = 0 THEN "no_results"
        ELSE IF ~resp.is_final THEN "interim"
        ELSE IF resp.alternatives = 0 \/ original_text = <<>>
               THEN "final_blank"
        ELSE "final_text"

\* Sessions that receive responses of every content, or fail, while time
\* passes.
NextRespond ==
    \/ StartSession
    \/ \E s \in Sessions : GenConfig(s)
    \/ \E s \in Sessions : GenHead(s)
    \/ \E s \in Sessions : GenEmpty(s)
    \/ \E resp \in Responses : Response(ResponseKind(resp))
    \/ \E e \in BOOLEAN : CallException(e)
    \/ Cooldown
    \/ Quit
    \/ LoopExit
    \/ TickEarly

SpecRespond == Init /\ [][NextRespond]_vars

\* C31: a response is put on translation_queue exactly when it has a final
\* result with an alternative whose transcript holds a character that is
\* not whitespace (and stop is not set); any other response changes
\* last_google_response_time alone, unless stop is set and the loop breaks.
C31_OnlyNonEmptyFinals ==
    [][\A resp \in Responses :
         Response(ResponseKind(resp))
           => LET text == /\ resp.results > 0
                          /\ resp.is_final
                          /\ resp.alternatives > 0
                          /\ \E k \in DOMAIN resp.transcript :
                                resp.transcript[k] \notin {32, 10}
              IN  /\ (translation_queue' # translation_queue)
                        <=> (text /\ ~stop_event)
                  /\ translation_queue' # translation_queue
                       => translation_queue' =
                            Append(translation_queue, uttered')
                  /\ (~text /\ ~stop_event)
                       => UNCHANGED <<is_paused, stop_event, audio_queue,
                                      translation_queue, session, tpc, gen,
                                      since_start, since_audio, fanVars,
                                      frameVars, otherVars>>]_vars

\* A second into a session a response has just been handled, and nothing
\* has been queued.
C31_Witness ==
    /\ tpc = "recv"
    /\ since_start = 1
    /\ since_response = 0
    /\ uttered = 0
    /\ translation_queue = <<>>

\* C32: the language of the configuration request a session's call receives
\* is the language read when the session started; it does not change while
\* the generator runs, and the language of the session loop changes only
\* when a session starts.
C32_LanguageFixedPerSession ==
    /\ [](\A s \in Sessions :
            gen[s].sent # -1 => gen[s].sent = gen[s].read)
    /\ [][/\ \A s \in Sessions :
               (gen[s].sent # -1 /\ gen'[s].pc # "done")
                 => gen'[s].sent = gen[s].sent
          /\ sess_lang' # sess_lang => session' = session + 1]_vars

\* The operator has switched from 'en' to language 1 while the generator of
\* the open session, configured for 'en', waits for audio.
C32_Witness ==
    /\ tpc = "recv"
    /\ gen[session].pc = "get"
    /\ gen[session].sent = 0
    /\ curr_lang = 1

\* C33: a generator that takes the sentinel from audio_queue returns at
\* once, paused or not; every session that starts takes the language the
\* configuration holds at that moment; and after a switch a session with
\* the new language is started (unless stop is set or the sessions of the
\* model are used up).
C33_SwitchRestartsSession ==
    /\ [][/\ \A s \in Sessions :
               (/\ gen[s].pc = "get"
                /\ gen'[s] # gen[s]
                /\ audio_queue # <<>>
                /\ Head(audio_queue) = RESTART_STREAM)
                 => gen'[s].pc = "done"
          /\ session' # session => sess_lang' = curr_lang]_vars
    /\ (curr_lang # sess_lang)
         ~> (sess_lang = curr_lang \/ stop_event \/ session = MaxSessions)

\* Paused all along, session 1 has been ended by the sentinel of a switch
\* to language 1 and session 2 runs with that language.
C33_Witness ==
    /\ session = 2
    /\ tpc = "recv"
    /\ gen[2].read = 1
    /\ last_exit = "sentinel"
    /\ is_paused
    /\ clients = {}

\* C34: the sentinel of a restart_signal call is taken from audio_queue by
\* the generator of the session that is live at that moment, and that
\* generator returns, which ends the session.
C34_SentinelEndsOneSession ==
    [][(/\ audio_queue # <<>>
        /\ Head(audio_queue) = RESTART_STREAM
        /\ audio_queue' = Tail(audio_queue))
         => /\ Live(session)
            /\ gen[session].pc = "get"
            /\ gen'[session].pc = "done"
            /\ last_exit' = "sentinel"]_vars

\* restart_signal called up to MaxSignals times, between frame enqueues and
\* generator dequeues.
NextRestart ==
    \/ Next
    \/ RestartSignalWithin(MaxSignals)

SpecRestart == Init /\ [][NextRestart]_vars

\* C35: audio_queue never holds more than one restart sentinel.
C35_AtMostOneSentinel ==
    Cardinality({k \in DOMAIN audio_queue :
                   audio_queue[k] = RESTART_STREAM}) <= 1

\* No generator has run yet, so the second restart_signal call found the
\* sentinel of the first in the queue; one sentinel is queued after it.
C35_Witness ==
    /\ restarts = MaxSignals
    /\ session = 0
    /\ audio_queue = <<RESTART_STREAM>>


\* C36: the stall test never ends a generator less than STALL_SILENT seconds
\* after the start of the session that is open then, hence never a session
\* that young; a session started by a stall restart is itself at least
\* STALL_SILENT seconds old when the next stall restart comes.
C36_NoStallInYoungSession ==
    [][\A s \in Sessions : StallReturn(s) => since_start > STALL_SILENT]_vars

\* The second session, started after a stall restart, has been ended by the
\* stall test in its turn.
C36_Witness ==
    /\ session = 2
    /\ gen[1].pc = "done"
    /\ gen[2].pc = "done"
    /\ last_exit = "stall"
    /\ tpc = "recv"
    /\ since_start > STALL_SILENT


\* ---------------------------------------------------------------------
\* Viewers come and go while captions are sent; the operator leaves the
\* pause command alone.
\* ---------------------------------------------------------------------

NextViewers ==
    \/ uttered < MaxTalks /\ NewTalk
    \/ DispatchGet
    \/ DispatchCheck
    \/ DispatchTranslate(TRUE)
    \/ DispatchWeb
    \/ DispatchWebWait(FALSE)
    \/ DispatchPort
    \/ \E t \in tasks : BroadcastMessage(t)
    \/ \E t \in tasks, c \in Viewers, ok \in BOOLEAN : ClientSend(t, c, ok)
    \/ \E t \in tasks : BroadcastMessageDone(t)
    \/ \E c \in Viewers : WebConnect(c)
    \/ \E c \in Viewers : WebDisconnect(c)

SpecViewers == Init /\ [][NextViewers]_vars

\* C37: with no pause command from the operator, the transcriber is paused
\* exactly when no viewer is subscribed to the broadcast channel.
C37_PausedIffNoViewers == is_paused <=> clients = {}

\* Two viewers have come, one has left again, and a viewer whose send
\* failed is still subscribed: the transcriber runs.
C37_Witness ==
    /\ Cardinality(clients) = 1
    /\ lost[0] # {}
    /\ ~is_paused
    /\ uttered > 0


\* C38: a connect or a disconnect on a language channel leaves the pause flag
\* and the broadcast channel's subscriber set as they are, and, the operator
\* not using the pause command, the transcriber stays paused while the
\* broadcast channel has no subscriber, whoever listens on language channels.
C38_LanguageChannelLeavesPause ==
    /\ [][\A c \in Peers :
            (SlaveConnect(es, c) \/ SlaveDisconnect(es, c) \/ PeerCloses(es, c))
               => UNCHANGED <<is_paused, clients>>]_vars
    /\ [](clients = {} => is_paused)

\* Several language-channel subscribers are connected after an utterance
\* was announced, and with no viewer on the broadcast channel the
\* transcriber is paused.
C38_Witness ==
    /\ Cardinality(port_clients[es]) >= 2
    /\ clients = {}
    /\ is_paused
    /\ uttered > 0


\* C39: when generate_audio returns nothing for a language, broadcast_audio
\* ends there: it has written to no subscriber of that language's channel,
\* no coroutine is left that could write this utterance to it, no subscriber
\* is removed or marked broken, and the dispatcher, whose wait for this
\* language is over, goes on to the next one.
C39_SynthesisFailureSkips ==
    /\ [][\A t \in tasks :
            BroadcastAudioTts(t, FALSE)
              => /\ t.seen = {}
                 /\ port_clients' = port_clients
                 /\ lost' = lost
                 /\ ~\E u \in tasks' : /\ u.kind = "audio"
                                       /\ u.utt = t.utt
                                       /\ u.lang = t.lang
                 /\ (disp.pc = "port_wait" /\ disp.lang = t.lang)
                       => ~Pending("audio")']_vars
    /\ \A l \in Languages :
          (disp.pc = "port_wait" /\ disp.lang = l /\ ~Pending("audio"))
             ~> (disp.pc # "port_wait" \/ disp.lang # l)

\* The dispatcher waits for the audio of a language whose channel has a
\* healthy subscriber, and broadcast_audio has returned.
C39_Witness ==
    /\ disp.pc = "port_wait"
    /\ ~Pending("audio")
    /\ port_clients[PortServer(disp.lang)] # {}
    /\ lost[PortServer(disp.lang)] = {}
    /\ disp.waited = 0


\* ---------------------------------------------------------------------
\* main: the four awaitables handed to asyncio.gather, and the cleanup of
\* its finally block.  The three worker loops run in threads of the
\* executor; wait_for_keypress is a coroutine.
\* ---------------------------------------------------------------------

\* The three functions given to run_in_executor have returned: audio_stream
\* leaves its loop when the stop flag is set, transcribe_loop and
\* translate_loop are at their ends.
WorkersDone == stop_event /\ tpc = "exit" /\ disp.pc = "exit"

\* asyncio.gather returns: wait_for_keypress has returned (it does so only
\* after 'q', which sets the flag) and the three futures are done.
GatherReturns ==
    /\ main_pc = "gather"
    /\ WorkersDone
    /\ main_pc' = "cleanup"
    /\ UNCHANGED <<sessVars, fanVars, frameVars>>
    /\ UNCHANGED <<lost, curr_lang, sess_lang, produced, orig_code, cooled,
                   last_error, slave>>

\* The main task is cancelled while it awaits gather: gather cancels
\* wait_for_keypress and the three futures, whose functions go on running
\* in their threads; CancelledError is caught and the finally block begins.
MainCancelled ==
    /\ main_pc = "gather"
    /\ main_pc' = "cleanup"
    /\ UNCHANGED <<sessVars, fanVars, frameVars>>
    /\ UNCHANGED <<lost, curr_lang, sess_lang, produced, orig_code, cooled,
                   last_error, slave>>

\* task.cancel() on the three futures changes nothing for a function that
\* is running; executor.shutdown(wait=True) returns when the three
\* functions have returned.
ExecutorShutdown ==
    /\ main_pc = "cleanup"
    /\ WorkersDone
    /\ main_pc' = "servers"
    /\ UNCHANGED <<sessVars, fanVars, frameVars>>
    /\ UNCHANGED <<lost, curr_lang, sess_lang, produced, orig_code, cooled,
                   last_error, slave>>

\* The port servers and the network servers are stopped; stop_event.clear()
StopServers ==
    /\ main_pc = "servers"
    /\ main_pc' = "stopped"
    /\ stop_event' = FALSE
    /\ UNCHANGED <<is_paused, audio_queue, translation_queue, session, tpc,
                   gen, since_start, since_audio, since_response, restarts,
                   paused_all, audio_is_real, frame_seq, last_exit>>
    /\ UNCHANGED <<fanVars, frameVars>>
    /\ UNCHANGED <<lost, curr_lang, sess_lang, produced, orig_code, cooled,
                   last_error, slave>>

\* The worker loops with nothing to transcribe or translate, the operator's
\* 'q' while wait_for_keypress runs, and main.  Time is followed for Horizon
\* seconds of a session, and without limit once the flag is set or main has
\* left gather.
NextShutdown ==
    \/ StartSession
    \/ \E s \in Sessions : GenConfig(s)
    \/ \E s \in Sessions : GenHead(s)
    \/ \E s \in Sessions : GenEmpty(s)
    \/ CallEnds
    \/ LoopExit
    \/ (since_start < Horizon \/ stop_event \/ main_pc # "gather") /\ Tick
    \/ DispatchEmpty
    \/ DispatchExit
    \/ main_pc = "gather" /\ Quit
    \/ GatherReturns
    \/ MainCancelled
    \/ ExecutorShutdown
    \/ StopServers

\* Every thread and the event loop go on when they can, and time passes.
SpecShutdown ==
    /\ Init
    /\ [][NextShutdown]_vars
    /\ \A s \in Sessions :
          WF_vars(GenConfig(s) \/ GenHead(s) \/ GenEmpty(s))
    /\ WF_vars(StartSession)
    /\ WF_vars(CallEnds)
    /\ WF_vars(LoopExit)
    /\ WF_vars((stop_event \/ main_pc # "gather") /\ Tick)
    /\ WF_vars(DispatchExit)
    /\ WF_vars(GatherReturns)
    /\ WF_vars(ExecutorShutdown)
    /\ WF_vars(StopServers)

\* C40: whenever main has left asyncio.gather, executor.shutdown(wait=True)
\* returns and the servers are then stopped.
C40_ShutdownTerminates == (main_pc = "cleanup") ~> (main_pc = "stopped")

====
